---- MODULE Spec2Model ----
(***************************************************************************)
(* Quiz Pro: the local storage layer (src/js/storage.js, class QuizStorage) *)
(* as a state machine over the localStorage keys it owns.                   *)
(*                                                                          *)
(* Values are kept decoded: JSON.stringify followed by JSON.parse is the    *)
(* identity on the records used here (numbers, strings, arrays, objects     *)
(* without undefined members), so a key holds the value last written.       *)
(* An absent object member is written None (timestamps) or NoId (ids).      *)
(* Timestamps are the clock value, counted in seconds; toISOString followed *)
(* by new Date(...) is exact at that resolution.                            *)
(***************************************************************************)
EXTENDS Integers, Sequences, FiniteSets, Bags, TLC

VARIABLES
    questions,    \* localStorage['quiz-created-questions'] ([] when absent)
    collections,  \* localStorage['quiz-collections']       ([] when absent)
    history,      \* localStorage['quiz-history']           ([] when absent)
    settings,     \* localStorage['quiz-settings']          ("absent" when unset)
    imports,      \* localStorage['quiz-imports']           ([] when absent)
    now,          \* the wall clock read by new Date(), in seconds
    nextId,       \* number of ids generateId has handed out
    backup,       \* the last object returned by createBackup, with the store it was taken from
    nImports,     \* number of bundle files handed to importData so far
    quota,        \* the space localStorage grants the keys of the store, in records
    last,         \* the last call: its name, arguments, result and the store before it
    caches,       \* the CacheStorage of the service worker: its caches in creation order
    swState,      \* the lifecycle state of the service worker (src/sw.js)
    pending,      \* the operations of the service worker that wait to be settled (a bag)
    nFetches,     \* number of fetch events dispatched to the service worker so far
    nMessages,    \* number of messages posted to the service worker so far
    offlineQueue, \* PWAManager.offlineQueue, the page's list of actions taken while offline
    storedQueue,  \* localStorage['pwa-offline-queue']
    drains,       \* the processOfflineQueue calls in progress, in the order they began
    tabs,         \* per tab: where its saveQuestion call stands and the list it has read
    stack         \* the active setItem / handleStorageFull frames over a store that rejects writes

vars == <<questions, collections, history, settings, imports, now, nextId, backup, nImports, quota, last,
          caches, swState, pending, nFetches, nMessages, offlineQueue, storedQueue, drains,
          tabs, stack>>

\* the keys of localStorage and the bookkeeping of the storage calls
storageVars == <<questions, collections, history, settings, imports, now, nextId, backup, nImports,
                 quota>>

\* the state of the service worker
workerVars == <<caches, swState, pending, nFetches, nMessages>>

\* the state of the page scripts outside QuizStorage, and of calls in progress
pageVars == <<offlineQueue, storedQueue, drains, tabs, stack>>

-----------------------------------------------------------------------------
(* Bounds of the model *)

MaxId == 1          \* caller-supplied ids are 1..MaxId
MaxCalls == 3       \* calls that read the clock in one run
MaxImports == 1     \* bundle files imported in one run (each may be imported twice)
MaxAppends == 102   \* quiz results saved in one run of the history specification
MaxStored == 52     \* entries of a stored history the ledger specification starts from
MaxVersion == 2     \* versions of a resource the network serves
MaxFetches == 2     \* fetch events dispatched to the service worker in one run
MaxMessages == 1    \* messages posted to the service worker in one run

(* Program constants *)

HistoryCap == 100       \* "Keep only last 100 results"
DefaultLimit == 50      \* getQuizHistory(limit = 50)
ImportLogCap == 20      \* "Keep only last 20 import logs"

SixMonths == 6          \* sixMonthsAgo.getMonth() - 6
DayTicks == 86400       \* the seconds of a day, the unit of the clock
KeptWhenFull == 20      \* handleStorageFull: history.slice(0, 20)

NoId == 0       \* a record without an id member (question.id is falsy)
None == 0       \* an absent timestamp member

-----------------------------------------------------------------------------
(* Values *)

Min(a, b) == IF a < b THEN a ELSE b

\* generateId(): Date.now().toString(36) + Math.random().toString(36).substr(2).
\* The n-th id handed out; distinct from every other and from caller-supplied ids.
GenId(n) == -(n + 1)

\* A question or collection object as a caller or a bundle file supplies it.
Rec(id, text) ==
    [id |-> id, text |-> text, createdAt |-> None, updatedAt |-> None, importedAt |-> None]

\* result.summary of a quiz run: the members getQuizStatistics reads
Summary(totalQuestions, percentage, totalTime) ==
    [totalQuestions |-> totalQuestions, percentage |-> percentage, totalTime |-> totalTime]

\* A quiz result as stored under 'quiz-history'.
QuizRun(id, timestamp, summary) == [id |-> id, timestamp |-> timestamp, summary |-> summary]

\* The result of a run of one question, answered in one second, with the given score.
Result(id, timestamp, score) == QuizRun(id, timestamp, Summary(1, score, 1))

\* A null element of a bundle array, and the null bundle.
Null == [null |-> TRUE]
IsNull(e) == "null" \in DOMAIN e

\* A bundle member: absent, a non-array value, or an array.
Absent == [kind |-> "absent"]
NotArray == [kind |-> "value"]
Array(items) == [kind |-> "array", items |-> items]
IsArray(sec) == sec.kind = "array"

Store == [questions |-> questions, collections |-> collections, history |-> history,
          settings |-> settings, imports |-> imports]

\* q.id for q of s (s holds no null)
IdsOf(s) == {s[i].id : i \in DOMAIN s}

\* Array.prototype.findIndex(q => q.id === id): first match, 0 for JS -1
FindIndex(s, id) ==
    IF \E i \in DOMAIN s : s[i].id = id
    THEN CHOOSE i \in DOMAIN s : s[i].id = id /\ \A j \in 1..(i - 1) : s[j].id # id
    ELSE 0

\* The subsequence of s at the indices in sel, in order.
AtIndices(s, sel) ==
    LET tagged == [i \in DOMAIN s |-> <<i, s[i]>>]
        kept == SelectSeq(tagged, LAMBDA p : p[1] \in sel)
    IN  [k \in DOMAIN kept |-> kept[k][2]]

-----------------------------------------------------------------------------
(* KeyValueStore and history reads *)

\* getQuizHistory(limit): limit ? history.slice(0, limit) : history
GetQuizHistory(h, limit) == IF limit # 0 THEN SubSeq(h, 1, Min(limit, Len(h))) ELSE h

\* getItem(settings, {}): the stored object, {} when the key is unset
GetSettings(s) == IF s = "absent" THEN "{}" ELSE s

\* The space the store takes, in records: every stored record takes one unit, and
\* so does a stored settings object.
Size(st) ==
    Len(st.questions) + Len(st.collections) + Len(st.history) + Len(st.imports)
        + (IF st.settings = "absent" THEN 0 ELSE 1)

\* The space localStorage grants the store on a device with room
StorageLimit == MaxStored + 2

\* localStorage.setItem(key, JSON.stringify(value)) raises QuotaExceededError when
\* the store would take more than the space granted
Fits(st, key, value, space) == Size([st EXCEPT ![key] = value]) <= space

\* localStorage.setItem(key, JSON.stringify(value)) called outside setItem: nothing
\* catches the QuotaExceededError, and nothing is stored when it is raised
LocalStorageSetItem(st, key, value, space) ==
    [threw |-> ~Fits(st, key, value, space),
     store |-> IF Fits(st, key, value, space) THEN [st EXCEPT ![key] = value] ELSE st]

\* handleStorageFull(): the history read through getQuizHistory() is cut to its 20
\* newest entries when it has more, and the import log is emptied; both writes
\* shrink the store
HandleStorageFull(st) ==
    LET read == GetQuizHistory(st.history, DefaultLimit) IN
    [st EXCEPT !.history = IF Len(read) > KeptWhenFull THEN SubSeq(read, 1, KeptWhenFull)
                           ELSE @,
               !.imports = <<>>]

\* setItem(key, value): the store after the call and the boolean returned. A write
\* that fails with QuotaExceededError calls handleStorageFull and returns false.
SetItem(st, key, value, space) ==
    IF Fits(st, key, value, space)
    THEN [ok |-> TRUE, store |-> [st EXCEPT ![key] = value]]
    ELSE [ok |-> FALSE, store |-> HandleStorageFull(st)]

-----------------------------------------------------------------------------
(* Questions and collections *)

\* saveQuestion(question): the list written back
SaveQuestionList(qs, question, t, n) ==
    IF question.id # NoId
    THEN LET index == FindIndex(qs, question.id) IN
         IF index # 0
         THEN [qs EXCEPT ![index] = [question EXCEPT !.updatedAt = t]]
         ELSE Append(qs, [question EXCEPT !.createdAt = t])
    ELSE Append(qs, [question EXCEPT !.id = GenId(n), !.createdAt = t])

\* saveQuestion(question): the id returned (question.id after the call)
SaveQuestionId(question, n) == IF question.id # NoId THEN question.id ELSE GenId(n)

\* the result of Array.prototype.find when no element matches
Undefined == [undefined |-> TRUE]

\* GetQuestionById returning the last record with the id instead of the first
GetQuestionByIdLast(qs, id) ==
    IF \E i \in DOMAIN qs : qs[i].id = id
    THEN qs[CHOOSE i \in DOMAIN qs : qs[i].id = id /\ \A j \in DOMAIN qs : qs[j].id = id => j <= i]
    ELSE Undefined

\* getQuestionById(id): questions.find(q => q.id === id)
GetQuestionById(qs, id) ==
    IF FindIndex(qs, id) # 0 THEN qs[FindIndex(qs, id)] ELSE Undefined

\* DeleteFiltered removing only the first record with the id
DeleteFirstMatch(qs, id) ==
    AtIndices(qs, DOMAIN qs \ {FindIndex(qs, id)})

\* deleteQuestion(id): questions.filter(q => q.id !== id)
DeleteFiltered(qs, id) == SelectSeq(qs, LAMBDA q : q.id # id)

\* getCollectionById(id): collections.find(c => c.id === id)
GetCollectionById(cs, id) ==
    IF FindIndex(cs, id) # 0 THEN cs[FindIndex(cs, id)] ELSE Undefined

\* saveCollection(collection): the list written back
SaveCollectionList(cs, collection, t, n) ==
    IF collection.id # NoId
    THEN LET index == FindIndex(cs, collection.id) IN
         IF index # 0
         THEN [cs EXCEPT ![index] = [collection EXCEPT !.updatedAt = t]]
         ELSE cs
    ELSE Append(cs, [collection EXCEPT !.id = GenId(n), !.createdAt = t])

-----------------------------------------------------------------------------
(* History *)

\* saveQuizResult(result): the list written back
SaveQuizResultList(h, result, t, n) ==
    LET read == GetQuizHistory(h, DefaultLimit)
        resultWithMeta == [result EXCEPT !.id = GenId(n), !.timestamp = t]
        unshifted == <<resultWithMeta>> \o read
    IN  IF Len(unshifted) > HistoryCap THEN SubSeq(unshifted, 1, HistoryCap) ELSE unshifted

\* allHistory.filter((item, index, arr) => index === arr.findIndex(t => t.id === item.id))
DedupeById(h) ==
    AtIndices(h, {i \in DOMAIN h : \A j \in 1..(i - 1) : h[j].id # h[i].id})

\* .sort((a, b) => new Date(b.timestamp) - new Date(a.timestamp)), a stable sort:
\* an entry comes behind every newer entry and behind the equally old entries
\* that preceded it
SortByTimestampDesc(h) ==
    LET place(i) ==
            Cardinality({j \in DOMAIN h : h[j].timestamp > h[i].timestamp})
            + Cardinality({j \in 1..i : h[j].timestamp = h[i].timestamp})
        placed == {<<place(i), i>> : i \in DOMAIN h}
    IN  [k \in DOMAIN h |-> h[(CHOOSE p \in placed : p[1] = k)[2]]]

\* Math.round(a / b) for a >= 0, b > 0: the nearest integer, a half rounded up
RoundDiv(a, b) == (2 * a + b) \div (2 * b)

\* history.reduce(...) of getQuizStatistics over the entries up to k: the sums are
\* those of the entries, the best score is the largest percentage above 0
SumOver(h, member) ==
    LET upTo[k \in 0..Len(h)] == IF k = 0 THEN 0 ELSE upTo[k - 1] + h[k].summary[member]
    IN  upTo[Len(h)]

BestOver(h) ==
    IF \E i \in DOMAIN h : h[i].summary.percentage > 0
    THEN CHOOSE p \in {h[i].summary.percentage : i \in DOMAIN h} :
            \A i \in DOMAIN h : h[i].summary.percentage <= p
    ELSE 0

\* the statistics of the entries of h
StatisticsOf(h) ==
    IF Len(h) = 0
    THEN [totalQuizzes |-> 0, totalQuestions |-> 0, averageScore |-> 0, bestScore |-> 0,
          totalTime |-> 0, averageTime |-> 0]
    ELSE [totalQuizzes |-> Len(h),
          totalQuestions |-> SumOver(h, "totalQuestions"),
          averageScore |-> RoundDiv(SumOver(h, "percentage"), Len(h)),
          bestScore |-> BestOver(h),
          totalTime |-> SumOver(h, "totalTime"),
          averageTime |-> RoundDiv(SumOver(h, "totalTime"), Len(h))]

\* getQuizStatistics(): const history = this.getQuizHistory(); ...
GetQuizStatistics(h) == StatisticsOf(GetQuizHistory(h, DefaultLimit))

\* The clock is the time value of a Date in seconds: the days since 1970-01-01
\* and the seconds of the day, t = day * DayTicks + s. Local time is taken
\* without a daylight-saving change between the dates compared.
IsLeapYear(year) == (year % 4 = 0 /\ year % 100 # 0) \/ year % 400 = 0

\* the days of a month, month 0 = January
DaysInMonth(year, month) ==
    IF month = 1 THEN (IF IsLeapYear(year) THEN 29 ELSE 28)
    ELSE IF month \in {3, 5, 8, 10} THEN 30 ELSE 31

\* the day number of January 1st of the year
DayFromYear(year) ==
    365 * (year - 1970) + ((year - 1) \div 4 - 1969 \div 4)
    - ((year - 1) \div 100 - 1969 \div 100) + ((year - 1) \div 400 - 1969 \div 400)

\* the days of the year before the month
DaysBeforeMonth(year, month) ==
    <<0, 31, 59, 90, 120, 151, 181, 212, 243, 273, 304, 334>>[month + 1]
    + (IF month > 1 /\ IsLeapYear(year) THEN 1 ELSE 0)

\* MakeDay(year, month, date): a month below 0 is one of the year before, and a
\* date the month does not have runs over into the months after it
MakeDay(year, month, date) ==
    IF month < 0
    THEN DayFromYear(year - 1) + DaysBeforeMonth(year - 1, month + 12) + date - 1
    ELSE DayFromYear(year) + DaysBeforeMonth(year, month) + date - 1

\* getFullYear of a day number from 1970-01-01 on
YearFromDay(day) ==
    CHOOSE year \in {1970 + day \div 365 - 1, 1970 + day \div 365} :
        DayFromYear(year) <= day /\ day < DayFromYear(year + 1)

\* getMonth of a day number of the year
MonthFromDay(year, day) ==
    CHOOSE month \in 0..11 :
        /\ MakeDay(year, month, 1) <= day
        /\ day < MakeDay(year, month, 1) + DaysInMonth(year, month)

\* the time value of a date and a second of its day
TimeValue(year, month, date, s) == MakeDay(year, month, date) * DayTicks + s

\* date.setMonth(date.getMonth() - months) on a day of a month of a year, the
\* date of the month and the time of day kept
MonthsBefore(year, month, day, s, months) ==
    MakeDay(year, month - months, day - MakeDay(year, month, 1) + 1) * DayTicks + s

MonthsBeforeIn(year, day, s, months) ==
    MonthsBefore(year, MonthFromDay(year, day), day, s, months)

\* const sixMonthsAgo = new Date(); sixMonthsAgo.setMonth(sixMonthsAgo.getMonth() - 6)
SixMonthsAgo(t) ==
    MonthsBeforeIn(YearFromDay(t \div DayTicks), t \div DayTicks, t % DayTicks, SixMonths)

\* the entries stored after the moment
NewerThan(h, moment) == SelectSeq(h, LAMBDA item : item.timestamp > moment)

\* history.filter(item => new Date(item.timestamp) > sixMonthsAgo)
RecentOf(h, t) == NewerThan(h, SixMonthsAgo(t))

\* cleanupOldEntries(): the stored history after the call
CleanupOldEntriesList(h, t) ==
    LET read == GetQuizHistory(h, DefaultLimit)
        recentHistory == RecentOf(read, t)
    IN  IF Len(recentHistory) < Len(read) THEN recentHistory ELSE h

-----------------------------------------------------------------------------
(* Import *)

\* newQuestions.forEach(q => { if (!q.id) q.id = this.generateId(); q.importedAt = ... })
\* over the elements of items at the indices in sel, in order; the objects of the
\* bundle are changed in place. Reading a member of null raises a TypeError, which
\* ends the loop.
Stamp(items, sel, t, n) ==
    LET nulls == {i \in sel : IsNull(items[i])}
        stop == IF nulls = {} THEN Len(items) + 1
                ELSE CHOOSE i \in nulls : \A j \in nulls : i <= j
        done == {i \in sel : i < stop}
        fresh == {i \in done : items[i].id = NoId}
        stamped(i) ==
            [items[i] EXCEPT
                !.id = IF i \in fresh
                       THEN GenId(n + Cardinality({j \in fresh : j < i})) ELSE @,
                !.importedAt = t]
    IN  [threw |-> nulls # {},
         items |-> [i \in DOMAIN items |-> IF i \in done THEN stamped(i) ELSE items[i]],
         nextId |-> n + Cardinality(fresh)]

\* The merge branch: existing records, then the bundle's records whose id no
\* existing record has. data.questions.filter(q => !existingIds.has(q.id)) raises
\* on a null element before anything is changed.
Merged(existing, sel, st) ==
    [threw |-> FALSE, stored |-> existing \o AtIndices(st.items, sel), items |-> st.items,
     nextId |-> st.nextId, count |-> Cardinality(sel)]

MergeSelected(existing, items, sel, t, n) == Merged(existing, sel, Stamp(items, sel, t, n))

MergeNew(existing, items, t, n) ==
    IF \E i \in DOMAIN items : IsNull(items[i])
    THEN [threw |-> TRUE, stored |-> existing, items |-> items, nextId |-> n, count |-> 0]
    ELSE MergeSelected(existing, items,
                       {i \in DOMAIN items : items[i].id \notin IdsOf(existing)}, t, n)

\* The replace branch: every bundle record is stamped, then the list is written.
Replaced(existing, st) ==
    [threw |-> st.threw, stored |-> IF st.threw THEN existing ELSE st.items,
     items |-> st.items, nextId |-> st.nextId,
     count |-> IF st.threw THEN 0 ELSE Len(st.items)]

ReplaceAll(existing, items, t, n) == Replaced(existing, Stamp(items, DOMAIN items, t, n))

Skipped(existing, sec, n) ==
    [threw |-> FALSE, stored |-> existing, items |-> <<>>, nextId |-> n, count |-> 0]

\* if (data.questions && Array.isArray(data.questions)) { merge or replace }
ImportQuestions(existing, sec, opts, t, n) ==
    IF ~IsArray(sec) THEN Skipped(existing, sec, n)
    ELSE IF opts.mergeQuestions THEN MergeNew(existing, sec.items, t, n)
    ELSE ReplaceAll(existing, sec.items, t, n)

\* if (data.collections && Array.isArray(data.collections) && mergeCollections) { merge }
ImportCollections(existing, sec, opts, t, n) ==
    IF ~(IsArray(sec) /\ opts.mergeCollections) THEN Skipped(existing, sec, n)
    ELSE MergeNew(existing, sec.items, t, n)

\* uniqueHistory.slice(0, 100)
Slice(h, n) == SubSeq(h, 1, Min(n, Len(h)))

\* if (data.history && Array.isArray(data.history) && mergeHistory) { union }
\* The de-duplicating filter reads item.id of every element and raises on null.
ImportHistory(existing, sec, opts) ==
    IF ~(IsArray(sec) /\ opts.mergeHistory) THEN [threw |-> FALSE, stored |-> existing]
    ELSE IF \E i \in DOMAIN sec.items : IsNull(sec.items[i])
    THEN [threw |-> TRUE, stored |-> existing]
    ELSE [threw |-> FALSE,
          stored |-> Slice(SortByTimestampDesc(DedupeById(
                               GetQuizHistory(existing, DefaultLimit) \o sec.items)),
                           HistoryCap)]

\* if (data.settings && overwriteSettings) setItem(settings, data.settings)
ImportSettings(existing, sec, opts) ==
    IF sec # "absent" /\ opts.overwriteSettings THEN sec ELSE existing

\* logImport(data, importedCount)
LogImport(log, count, t, n) ==
    Slice(<<[id |-> GenId(n), timestamp |-> t, questionsImported |-> count]>> \o log,
          ImportLogCap)

\* The bundle with the items of one array member replaced (objects changed in place).
WithItems(data, member, r) ==
    IF IsArray(data[member]) /\ r.items # <<>>
    THEN [data EXCEPT ![member] = Array(r.items)]
    ELSE data

\* Failed with the import logged all the same
FailedButLogged(st, data, n) ==
    [store |-> [st EXCEPT !.imports = LogImport(@, 0, None, n)], data |-> data,
     nextId |-> n + 1, success |-> FALSE, importedQuestions |-> 0]

\* catch (error) { return { success: false, ... } }
Failed(st, data, n) ==
    [store |-> st, data |-> data, nextId |-> n, success |-> FALSE, importedQuestions |-> 0]

\* importData so far: the store, and whether setItem has returned false
Importing(st) == [store |-> st, rejected |-> FALSE]

\* this.setItem(key, value) inside importData; the boolean returned is dropped
Wrote(w, key, value, space) ==
    [store |-> SetItem(w.store, key, value, space).store,
     rejected |-> w.rejected \/ ~SetItem(w.store, key, value, space).ok]

\* the exception is caught: what was written stays written
Caught(w, data, n) == Failed(w.store, data, n) @@ [rejected |-> w.rejected]

\* this.logImport(data, importedCount); return { success: true, importedQuestions }
Logged(w, data, t, n, count, space) ==
    [store |-> Wrote(w, "imports", LogImport(w.store.imports, count, t, n), space).store,
     data |-> data, nextId |-> n + 1, success |-> TRUE, importedQuestions |-> count,
     rejected |-> Wrote(w, "imports", LogImport(w.store.imports, count, t, n), space).rejected]

\* if (data.settings && options.overwriteSettings) this.setItem(settings, data.settings)
SettingsImported(w, data, opts, space) ==
    IF data.settings # "absent" /\ opts.overwriteSettings
    THEN Wrote(w, "settings", ImportSettings(w.store.settings, data.settings, opts), space)
    ELSE w

\* importData after the history section h: its write, settings, the import log
ImportedHistory(w, data, opts, t, n, count, space, h) ==
    IF h.threw THEN Caught(w, data, n)
    ELSE Logged(SettingsImported(IF IsArray(data.history) /\ opts.mergeHistory
                                 THEN Wrote(w, "history", h.stored, space) ELSE w,
                                 data, opts, space),
                data, t, n, count, space)

\* importData at the history section, which reads the history as the writes before
\* it have left it
ImportingHistory(w, data, opts, t, n, count, space) ==
    ImportedHistory(w, data, opts, t, n, count, space,
                    ImportHistory(w.store.history, data.history, opts))

\* importData after the collections section c: its write, then the history section
ImportedCollections(w, data, opts, t, count, space, c) ==
    IF c.threw THEN Caught(w, WithItems(data, "collections", c), c.nextId)
    ELSE ImportingHistory(IF IsArray(data.collections) /\ opts.mergeCollections
                          THEN Wrote(w, "collections", c.stored, space) ELSE w,
                          WithItems(data, "collections", c), opts, t, c.nextId, count, space)

\* importData after the questions section q: its write, then the collections
\* section; importedCount is set whatever setItem returns
ImportedQuestions(w, data, opts, t, space, q) ==
    IF q.threw THEN Caught(w, WithItems(data, "questions", q), q.nextId)
    ELSE ImportedCollections(IF IsArray(data.questions)
                             THEN Wrote(w, "questions", q.stored, space) ELSE w,
                             WithItems(data, "questions", q), opts, t, q.count, space,
                             ImportCollections(w.store.collections, data.collections, opts,
                                               t, q.nextId))

\* importData(data, options) with the space localStorage grants: the store and the
\* bundle after the call, and the result. The sections are written one after the
\* other inside one try block; an exception leaves what was written before it and
\* skips the rest, the import log included. A write that setItem rejects stores
\* nothing, runs handleStorageFull, and the import goes on.
ImportDataCall(st, data, opts, t, n, space) ==
    IF IsNull(data) THEN Caught(Importing(st), data, n)
    ELSE ImportedQuestions(Importing(st), data, opts, t, space,
                           ImportQuestions(st.questions, data.questions, opts, t, n))

\* exportData(includeHistory = true)
ExportData(st) ==
    [questions |-> Array(st.questions), collections |-> Array(st.collections),
     history |-> Array(GetQuizHistory(st.history, DefaultLimit)),
     settings |-> GetSettings(st.settings)]

-----------------------------------------------------------------------------------------------------------------------------------------------------
(* Inputs *)

SuppliedIds == 1..MaxId

\* question and collection objects handed to saveQuestion / saveCollection
CallerRecs == {Rec(id, "a") : id \in {NoId} \cup SuppliedIds}

\* records of a bundle file: without an id, or with the id 1
BundleRecs == {Rec(NoId, "b"), Rec(1, "b")}

\* arrays of up to two elements
ArraysOf(elems) ==
    {<<>>} \cup {<<a>> : a \in elems} \cup {<<a, b>> : a, b \in elems}

QuestionSections ==
    {Absent, NotArray} \cup {Array(a) : a \in ArraysOf(BundleRecs \cup {Null})}

CollectionSections ==
    {Absent, NotArray, Array(<<Rec(1, "b")>>), Array(<<Null>>)}

HistorySections ==
    {Absent, Array(<<Result(1, 1, 1)>>), Array(<<Result(2, 2, 1), Null>>)}

\* history members of bundle files: empty, a result the store may already hold
\* (the first id generateId hands out), and a result of another device
HistoryFiles ==
    {<<>>, <<Result(GenId(0), 2, 1)>>, <<Result(1, 1, 1)>>}

Bundle(q, c, h, s) == [questions |-> q, collections |-> c, history |-> h, settings |-> s]

Options(mq, mc, mh, os) ==
    [mergeQuestions |-> mq, mergeCollections |-> mc, mergeHistory |-> mh,
     overwriteSettings |-> os]

DefaultOptions == Options(TRUE, TRUE, FALSE, FALSE)
RestoreOptions == Options(FALSE, FALSE, TRUE, TRUE)
AllOptions == Options(TRUE, TRUE, TRUE, TRUE)

\* importData(data, options) calls: the null bundle, every questions member alone
\* (merged or replaced), and one question with every combination of the other members
ImportCalls ==
    {<<Null, DefaultOptions>>}
    \cup {<<Bundle(q, Absent, Absent, "absent"), o>> :
            q \in QuestionSections, o \in {DefaultOptions, RestoreOptions}}
    \cup {<<Bundle(Array(<<Rec(1, "b")>>), c, h, "s1"), o>> :
            c \in CollectionSections, h \in HistorySections,
            o \in {AllOptions, RestoreOptions}}

-----------------------------------------------------------------------------
(* Operations *)

NoCall == [op |-> "none"]

\* the service worker before its install event, with no cache of the origin
\* the tabs of the origin that have the application open
Tabs == {1, 2}

\* a tab that is not inside a saveQuestion call
Idle == [pc |-> "idle"]

\* no offline action queued, the key of the queue never written, no call in progress
PageLoaded ==
    /\ offlineQueue = <<>>
    /\ storedQueue = Absent
    /\ drains = <<>>
    /\ tabs = [t \in Tabs |-> Idle]
    /\ stack = <<>>

WorkerParsed ==
    /\ caches = <<>>
    /\ swState = "parsed"
    /\ pending = EmptyBag
    /\ nFetches = 0
    /\ nMessages = 0

EmptyStore == [questions |-> <<>>, collections |-> <<>>, history |-> <<>>,
               settings |-> "absent", imports |-> <<>>]

\* the quiz runs and the import log that earlier visits have left on a device:
\* one run more than handleStorageFull keeps, and the entry of one import
EarlierRuns ==
    [i \in 1..(KeptWhenFull + 1) |-> Result(GenId(KeptWhenFull + 1 - i), -i, 50)]

EarlierImport ==
    <<[id |-> GenId(KeptWhenFull + 1), timestamp |-> -1, questionsImported |-> 0]>>

\* records that still fit on a device whose storage is nearly used up
SpareRoom == 1

\* the application is opened with the given space, history and import log
Opened(space, runs, log) ==
    /\ questions = <<>>
    /\ collections = <<>>
    /\ history = runs
    /\ settings = "absent"
    /\ imports = log
    /\ now = 1
    /\ nextId = Len(runs) + Len(log)
    /\ backup = Null
    /\ nImports = 0
    /\ quota = space
    /\ last = NoCall
    /\ WorkerParsed
    /\ PageLoaded

\* a first visit on a device with room
InitRoomy == Opened(StorageLimit, <<>>, <<>>)

\* a first visit on a device with room, or a visit to a device that holds earlier
\* runs and an import log and whose storage is nearly used up
Init ==
    \/ InitRoomy
    \/ Opened(Len(EarlierRuns) + Len(EarlierImport) + SpareRoom, EarlierRuns, EarlierImport)

\* a call is made a second after the call before it
CanCall == now <= MaxCalls

\* the keys after a call of setItem or of localStorage.setItem with the outcome r
WrittenItem(r) ==
    /\ questions' = r.store.questions
    /\ collections' = r.store.collections
    /\ history' = r.store.history
    /\ settings' = r.store.settings
    /\ imports' = r.store.imports

\* this.setItem(key, value) on the current store
Set(key, value) == WrittenItem(SetItem(Store, key, value, quota))

\* saveQuestion hands the list to setItem and returns question.id, whatever setItem
\* has returned
SavedQuestionAs(question, value, r) ==
    /\ WrittenItem(r)
    /\ last' = [op |-> "saveQuestion", question |-> question,
                id |-> SaveQuestionId(question, nextId), value |-> value,
                written |-> r.ok, pre |-> Store]

SaveQuestion ==
    \E question \in CallerRecs :
        /\ CanCall
        /\ now' = now + 1
        /\ nextId' = IF question.id = NoId THEN nextId + 1 ELSE nextId
        /\ SavedQuestionAs(question, SaveQuestionList(questions, question, now, nextId),
                SetItem(Store, "questions",
                        SaveQuestionList(questions, question, now, nextId), quota))
        /\ UNCHANGED <<backup, nImports, quota, workerVars, pageVars>>

DeleteQuestion ==
    \E id \in SuppliedIds \cup IdsOf(questions) :
        /\ CanCall
        /\ now' = now + 1
        /\ Set("questions", DeleteFiltered(questions, id))
        /\ last' = [op |-> "deleteQuestion", id |-> id,
                    deleted |-> Len(DeleteFiltered(questions, id)) < Len(questions),
                    pre |-> Store]
        /\ UNCHANGED <<nextId, backup, nImports, quota, workerVars, pageVars>>

\* deleteCollection(id): the collections without those of the id
DeleteCollection ==
    \E id \in SuppliedIds \cup IdsOf(collections) :
        /\ CanCall
        /\ now' = now + 1
        /\ Set("collections", DeleteFiltered(collections, id))
        /\ last' = [op |-> "deleteCollection", id |-> id,
                    deleted |-> Len(DeleteFiltered(collections, id)) < Len(collections),
                    pre |-> Store]
        /\ UNCHANGED <<nextId, backup, nImports, quota, workerVars, pageVars>>

\* deleteQuizHistory(): setItem(history, [])
DeleteQuizHistory ==
    /\ CanCall
    /\ now' = now + 1
    /\ Set("history", <<>>)
    /\ last' = [op |-> "deleteQuizHistory", pre |-> Store]
    /\ UNCHANGED <<nextId, backup, nImports, quota, workerVars, pageVars>>

\* the keys of storageKeys that the store keeps
StorageKeys == {"questions", "collections", "history", "settings", "imports"}

\* removeItem(key): the key is absent afterwards
RemoveItem ==
    \E key \in StorageKeys :
        /\ CanCall
        /\ now' = now + 1
        /\ questions' = IF key = "questions" THEN <<>> ELSE questions
        /\ collections' = IF key = "collections" THEN <<>> ELSE collections
        /\ history' = IF key = "history" THEN <<>> ELSE history
        /\ settings' = IF key = "settings" THEN "absent" ELSE settings
        /\ imports' = IF key = "imports" THEN <<>> ELSE imports
        /\ last' = [op |-> "removeItem", key |-> key, pre |-> Store]
        /\ UNCHANGED <<nextId, backup, nImports, quota, workerVars, pageVars>>

SaveCollection ==
    \E collection \in CallerRecs :
        /\ CanCall
        /\ now' = now + 1
        /\ Set("collections", SaveCollectionList(collections, collection, now, nextId))
        /\ nextId' = IF collection.id = NoId THEN nextId + 1 ELSE nextId
        /\ last' = [op |-> "saveCollection", collection |-> collection,
                    id |-> SaveQuestionId(collection, nextId), pre |-> Store]
        /\ UNCHANGED <<backup, nImports, quota, workerVars, pageVars>>

\* the variables after a call of importData with the outcome r
Written(r) ==
    /\ questions' = r.store.questions
    /\ collections' = r.store.collections
    /\ history' = r.store.history
    /\ settings' = r.store.settings
    /\ imports' = r.store.imports
    /\ nextId' = r.nextId

ImportedAs(data, opts, again, r) ==
    /\ Written(r)
    /\ last' = [op |-> "importData", data |-> data, opts |-> opts, after |-> r.data,
                success |-> r.success, importedQuestions |-> r.importedQuestions,
                rejected |-> r.rejected, again |-> again, pre |-> Store]
    /\ now' = now + 1
    /\ UNCHANGED <<backup, quota, workerVars, pageVars>>

\* importData(data, opts) on the current store
Imported(data, opts, again) ==
    ImportedAs(data, opts, again, ImportDataCall(Store, data, opts, now, nextId, quota))

ImportData ==
    \E call \in ImportCalls :
        /\ CanCall
        /\ nImports < MaxImports
        /\ nImports' = nImports + 1
        /\ Imported(call[1], call[2], "no")

\* the caller imports the bundle of the last import once more: the same object
\* (whose records the first call changed in place) or the same file parsed again
ImportAgain ==
    /\ last.op = "importData"
    /\ last.again = "no"
    /\ CanCall
    /\ UNCHANGED nImports
    /\ \E how \in {"same object", "same file"} :
        Imported(IF how = "same object" THEN last.after ELSE last.data, last.opts, how)

\* saveQuizResult(result) at the end of a quiz run, some time after the call before
SaveQuizResult ==
    \E result \in {Result(NoId, None, 1)} :
        /\ nextId < MaxAppends
        /\ now' = now + 1
        /\ Set("history", SaveQuizResultList(history, result, now + 1, nextId))
        /\ nextId' = nextId + 1
        /\ last' = [op |-> "saveQuizResult", id |-> GenId(nextId), pre |-> Store]
        /\ UNCHANGED <<backup, nImports, quota, workerVars, pageVars>>

\* a few quiz runs, for the stores that are backed up
SaveFewQuizResults ==
    /\ CanCall
    /\ SaveQuizResult

\* importData of a bundle file that carries only a history member
ImportHistoryFile ==
    \E h \in HistoryFiles, opts \in {AllOptions, DefaultOptions} :
        /\ nImports < MaxImports
        /\ nImports' = nImports + 1
        /\ Imported(Bundle(Absent, Absent, Array(h), "absent"), opts, "no")

\* the settings objects of the application
AppSettings == {"s1", "s2"}

\* QuizApp.saveSettings(): localStorage.setItem('quiz-settings', ...)
SaveSettings ==
    \E value \in AppSettings :
        /\ WrittenItem(LocalStorageSetItem(Store, "settings", value, quota))
        /\ last' = [op |-> "saveSettings", value |-> value,
                    threw |-> LocalStorageSetItem(Store, "settings", value, quota).threw,
                    pre |-> Store]
        /\ UNCHANGED <<now, nextId, backup, nImports, quota, workerVars, pageVars>>

\* createBackup(): { version, timestamp, data: exportData(true), storageInfo };
\* taken remembers the store the backup was made from
CreateBackup ==
    /\ IsNull(backup)
    /\ backup' = [timestamp |-> now, data |-> ExportData(Store), taken |-> Store]
    /\ last' = [op |-> "createBackup", pre |-> Store]
    /\ UNCHANGED <<questions, collections, history, settings, imports, now, nextId, nImports, quota, workerVars, pageVars>>

\* clearAllData(), confirmed by the user: every key of storageKeys is removed and
\* the page is loaded again, which starts its scripts anew: the PWAManager of the
\* new page has an empty offlineQueue and no call is in progress; the key
\* 'pwa-offline-queue' is none of storageKeys and stays
ClearAllData ==
    /\ questions' = <<>>
    /\ collections' = <<>>
    /\ history' = <<>>
    /\ settings' = "absent"
    /\ imports' = <<>>
    /\ offlineQueue' = <<>>
    /\ drains' = <<>>
    /\ stack' = <<>>
    /\ last' = [op |-> "clearAllData", pre |-> Store]
    /\ UNCHANGED <<now, nextId, backup, nImports, quota, storedQueue, tabs, workerVars>>

Restored(r) ==
    /\ Written(r)
    /\ last' = [op |-> "restoreBackup", threw |-> FALSE, data |-> backup.data,
                after |-> r.data, success |-> r.success, rejected |-> r.rejected,
                pre |-> Store]
    /\ now' = now + 1
    /\ UNCHANGED <<backup, quota, workerVars, pageVars>>

\* restoreBackup(backupData): a missing backup raises, otherwise
\* importData(backupData.data, {mergeQuestions: false, mergeCollections: false,
\*                               mergeHistory: true, overwriteSettings: true})
RestoreBackup ==
    /\ CanCall
    /\ nImports < MaxImports
    /\ nImports' = nImports + 1
    /\ IF IsNull(backup)
       THEN /\ last' = [op |-> "restoreBackup", threw |-> TRUE, pre |-> Store]
            /\ now' = now + 1
            /\ UNCHANGED <<questions, collections, history, settings, imports, nextId,
                           backup, quota, workerVars, pageVars>>
       ELSE Restored(ImportDataCall(Store, backup.data, RestoreOptions, now, nextId, quota))

Next ==
    \/ SaveQuestion
    \/ DeleteQuestion
    \/ SaveCollection
    \/ DeleteCollection
    \/ ImportData
    \/ ImportAgain

Spec == Init /\ [][Next]_vars

\* backup and restore: a store is built, backed up, possibly cleared, and restored
NextBackup ==
    \/ SaveQuestion
    \/ SaveCollection
    \/ SaveSettings
    \/ SaveFewQuizResults
    \/ DeleteQuizHistory
    \/ RemoveItem
    \/ CreateBackup
    \/ ClearAllData
    \/ RestoreBackup

SpecBackup == InitRoomy /\ [][NextBackup]_vars

\* the history ledger: results are appended one quiz run after the other, and a
\* bundle file with a history member may be imported in between
NextHistory ==
    \/ SaveQuizResult
    \/ ImportHistoryFile

SpecHistory == InitRoomy /\ [][NextHistory]_vars

-----------------------------------------------------------------------------
(* Tabs of the same origin saving questions. Each tab runs its own script; a *)
(* call reads the key, changes its copy of the list and writes the list back, *)
(* and nothing keeps another tab from reading or writing in between.         *)

\* createNewQuestion(questionData): the list written back
CreateNewQuestionList(qs, questionData) == Append(qs, questionData)

\* updateExistingQuestion(questionData): the list written back when a question
\* with the id of currentQuestion is stored
UpdateExistingQuestionList(qs, questionData) ==
    [qs EXCEPT ![FindIndex(qs, questionData.id)] = questionData]

\* importFromText(text): the list written back
ImportFromTextList(qs, parsed) == qs \o parsed

\* the text a tab saves under an id
TabText(t) == IF t = 1 THEN "a" ELSE "b"

\* collectFormData(): the data of the form, with the time of the submission
FormData(id, text, t) == [Rec(id, text) EXCEPT !.createdAt = t]

\* a tab inside a call: the list it has read and the list it is about to write
Reading(call, question, read, write) ==
    [pc |-> "read", call |-> call, question |-> question, read |-> read, write |-> write]

\* the tab is inside the call: it has read the key and the clock
TabReads(t, call, question, write) ==
    /\ CanCall
    /\ tabs[t].pc = "idle"
    /\ tabs' = [tabs EXCEPT ![t] = Reading(call, question, questions, write)]
    /\ now' = now + 1
    /\ last' = [op |-> "read", call |-> call, tab |-> t]
    /\ UNCHANGED <<questions, collections, history, settings, imports, backup, nImports,
                   offlineQueue, storedQueue, drains, stack, quota, workerVars>>

\* QuizStorage.saveQuestion(question) up to its setItem call: getAllQuestions()
\* and new Date() have returned
SaveQuestionReads(t) ==
    \E id \in Tabs :
        /\ TabReads(t, "saveQuestion", Rec(id, TabText(t)),
                    SaveQuestionList(questions, Rec(id, TabText(t)), now, nextId))
        /\ UNCHANGED nextId

\* createNewQuestion(questionData) up to saveQuestions: getSavedQuestions() has
\* returned; the data of the form carry a new id
CreateNewQuestionReads(t) ==
    /\ TabReads(t, "createNewQuestion", FormData(GenId(nextId), "c", now),
                CreateNewQuestionList(questions, FormData(GenId(nextId), "c", now)))
    /\ nextId' = nextId + 1

\* updateExistingQuestion(questionData) up to saveQuestions, for a question that
\* getSavedQuestions() has returned; the data of the form carry its id
UpdateExistingQuestionReads(t) ==
    \E id \in Tabs :
        /\ FindIndex(questions, id) # 0
        /\ TabReads(t, "updateExistingQuestion", FormData(id, "e", now),
                    UpdateExistingQuestionList(questions, FormData(id, "e", now)))
        /\ UNCHANGED nextId

\* importFromText(text) up to saveQuestions, for a text of one question: the
\* question has got its id and getSavedQuestions() has returned
ImportFromTextReads(t) ==
    /\ TabReads(t, "importFromText", FormData(GenId(nextId), "d", now),
                ImportFromTextList(questions, <<FormData(GenId(nextId), "d", now)>>))
    /\ nextId' = nextId + 1

\* the tab writes its list back: setItem in saveQuestion, saveQuestions (a bare
\* localStorage.setItem) in the calls of the question form
TabWrites(t) ==
    /\ tabs[t].pc = "read"
    /\ IF tabs[t].call = "saveQuestion"
       THEN WrittenItem(SetItem(Store, "questions", tabs[t].write, quota))
       ELSE WrittenItem(LocalStorageSetItem(Store, "questions", tabs[t].write, quota))
    /\ tabs' = [tabs EXCEPT ![t] = Idle]
    /\ last' = [op |-> tabs[t].call, tab |-> t, question |-> tabs[t].question,
                id |-> tabs[t].question.id, read |-> tabs[t].read, pre |-> Store]
    /\ UNCHANGED <<now, nextId, backup, nImports, offlineQueue, storedQueue, drains, stack,
                   quota, workerVars>>

NextTabs ==
    \/ \E t \in Tabs : SaveQuestionReads(t)
    \/ \E t \in Tabs : CreateNewQuestionReads(t)
    \/ \E t \in Tabs : UpdateExistingQuestionReads(t)
    \/ \E t \in Tabs : ImportFromTextReads(t)
    \/ \E t \in Tabs : TabWrites(t)

SpecTabs == InitRoomy /\ [][NextTabs]_vars

-----------------------------------------------------------------------------
(* The history ledger read at startup *)

\* a start of the application in the middle of a month
LedgerNow == TimeValue(2021, 7, 15, 0)

\* the starts of the application: August 15th, and August 31st, a date that
\* February does not have
LedgerStarts == {LedgerNow, TimeValue(2021, 7, 31, 0)}

\* the percentage of the oldest run of a stored history; every other run scored 50
OldestScores == {50, 90}

\* A stored history of n runs, newest first, as saveQuizResult and a merging import
\* (which sorts by timestamp and keeps up to 100 entries) leave it, at a start at
\* t: the `stale` oldest runs were stored at the moment six months before the
\* start, the others a second after it.
StoredSince(cutoff, n, stale, oldest) ==
    [i \in 1..n |->
        QuizRun(GenId(n - i),
                IF i > n - stale THEN cutoff ELSE cutoff + 1,
                Summary(i, IF i = n THEN oldest ELSE 50, 1))]

StoredHistory(t, n, stale, oldest) == StoredSince(SixMonthsAgo(t), n, stale, oldest)

InitLedger ==
    /\ questions = <<>>
    /\ collections = <<>>
    /\ now \in LedgerStarts
    /\ \E n \in 0..MaxStored : \E stale \in 0..n : \E oldest \in OldestScores :
            /\ history = StoredHistory(now, n, stale, oldest)
            /\ nextId = n
    /\ settings = "absent"
    /\ imports = <<>>
    /\ backup = Null
    /\ nImports = 0
    /\ quota = StorageLimit
    /\ last = NoCall
    /\ WorkerParsed
    /\ PageLoaded

\* getQuizStatistics(): reads the store, changes nothing
QuizStatistics ==
    /\ last' = [op |-> "getQuizStatistics", stats |-> GetQuizStatistics(history),
                pre |-> Store]
    /\ UNCHANGED <<questions, collections, history, settings, imports, now, nextId, backup,
                   nImports, quota, workerVars, pageVars>>

\* cleanupOldEntries(), called by the constructor at every start of the application
CleanupOldEntries ==
    /\ history' = CleanupOldEntriesList(history, now)
    /\ last' = [op |-> "cleanupOldEntries", again |-> last.op = "cleanupOldEntries",
                pre |-> Store]
    /\ UNCHANGED <<questions, collections, settings, imports, now, nextId, backup, nImports, quota, workerVars, pageVars>>

NextLedger ==
    \/ QuizStatistics
    \/ CleanupOldEntries

SpecLedger == InitLedger /\ [][NextLedger]_vars

-----------------------------------------------------------------------------
(* The two writers of 'quiz-history' *)

ModuleHistoryCap == 50

\* this.results of a finished quiz, one entry per question: an answer that was
\* right or wrong, the string 'skipped', or no entry
QuizResults ==
    {<<"correct">>, <<"correct", "incorrect">>, <<"skipped", "none">>,
     [i \in 1..40 |-> IF i <= 23 THEN "correct" ELSE "incorrect"]}

Count(results, kind) == Cardinality({i \in DOMAIN results : results[i] = kind})

\* the quotients a / b = m / 200, m odd, whose product with 100 is m / 2 - 1 / 2^k
\* in double-precision arithmetic and not m / 2 (23 / 40 * 100 is
\* 57.49999999999999): the values of m
RoundedDown == {29, 57, 113, 115}

\* Math.round((a / b) * 100) for 0 <= a <= b, b > 0. Math.round takes a half up;
\* the product of the rounded quotient is a half exactly when the true value is
\* one, except for the quotients of RoundedDown, and is never taken across a
\* half otherwise.
RoundedPercent(a, b) ==
    IF (200 * a) % (2 * b) = b /\ (200 * a) \div b \in RoundedDown
    THEN (200 * a - b) \div (2 * b)
    ELSE (200 * a + b) \div (2 * b)

\* QuizModule.generateExportData(): { timestamp, summary, questions }, an object
\* without id; its questions member, which no code modelled here reads, is left out
GenerateExportData(results, totalTime, t) ==
    [id |-> NoId, timestamp |-> t,
     summary |-> [totalQuestions   |-> Len(results),
                  correctAnswers   |-> Count(results, "correct"),
                  incorrectAnswers |-> Count(results, "incorrect"),
                  skipped          |-> Count(results, "skipped"),
                  percentage       |-> RoundedPercent(Count(results, "correct"), Len(results)),
                  totalTime        |-> totalTime]]

\* QuizModule.saveQuizResults(): the list written back. The export data go to
\* the end of the whole stored list, of which the last 50 entries are kept.
SaveQuizResultsList(h, data) ==
    LET results == Append(h, data)
    IN  IF Len(results) > ModuleHistoryCap
        THEN SubSeq(results, Len(results) - ModuleHistoryCap + 1, Len(results))
        ELSE results

\* QuizModule.saveQuizResults() when a quiz is completed: a bare
\* localStorage.setItem
SaveQuizResults ==
    \E results \in QuizResults :
        /\ CanCall
        /\ now' = now + 1
        /\ WrittenItem(LocalStorageSetItem(Store, "history",
                SaveQuizResultsList(history, GenerateExportData(results, Len(results), now + 1)),
                quota))
        /\ last' = [op |-> "saveQuizResults", pre |-> Store]
        /\ UNCHANGED <<nextId, backup, nImports, quota, workerVars, pageVars>>

\* both writers of the key, history imports and the cleanup at startup
NextWriters ==
    \/ SaveFewQuizResults
    \/ SaveQuizResults
    \/ DeleteQuizHistory
    \/ ImportHistoryFile
    \/ CleanupOldEntries
    \/ RemoveItem

SpecWriters == InitRoomy /\ [][NextWriters]_vars

-----------------------------------------------------------------------------
(* Writes that reach the limit of localStorage *)

\* the import log after one import
LoggedImports(n) == {<<>>, <<[id |-> GenId(n), timestamp |-> 1, questionsImported |-> 0]>>}

\* a store that holds a history of quiz runs and possibly an import log
InitQuota ==
    /\ questions = <<>>
    /\ collections = <<>>
    /\ \E n \in 0..MaxStored : \E log \in LoggedImports(n) :
            /\ history = StoredHistory(LedgerNow, n, 0, 50)
            /\ imports = log
            /\ nextId = n + 1
    /\ settings = "absent"
    /\ now = LedgerNow
    /\ backup = Null
    /\ nImports = 0
    /\ quota = StorageLimit
    /\ last = NoCall
    /\ WorkerParsed
    /\ PageLoaded

\* saveQuestion(question) on a store that may be full: the list is handed to
\* setItem, whose result saveQuestion does not look at
SaveQuestionNearLimit ==
    \E question \in {Rec(NoId, "a")} :
        /\ nextId < MaxAppends
        /\ now' = now + 1
        /\ nextId' = nextId + 1
        /\ SavedQuestionAs(question, SaveQuestionList(questions, question, now, nextId),
                SetItem(Store, "questions",
                        SaveQuestionList(questions, question, now, nextId), quota))
        /\ UNCHANGED <<backup, nImports, quota, workerVars, pageVars>>

NextQuota ==
    \/ SaveQuestionNearLimit

SpecQuota == InitQuota /\ [][NextQuota]_vars

-----------------------------------------------------------------------------
(* The service worker (src/sw.js): caches and strategies *)

\* Strings that the worker tests with startsWith and endsWith are sequences of
\* tokens; a pattern matches where its tokens do.
StartsWith(str, prefix) ==
    Len(prefix) <= Len(str) /\ SubSeq(str, 1, Len(prefix)) = prefix

EndsWith(str, suffix) ==
    Len(suffix) <= Len(str) /\ SubSeq(str, Len(str) - Len(suffix) + 1, Len(str)) = suffix

STATIC_CACHE_NAME == <<"quiz-pro-", "static-v1.0.0">>
DYNAMIC_CACHE_NAME == <<"quiz-pro-", "dynamic-v1.0.0">>

CdnStylesheet ==
    <<"http", "s:", "//", "cdnjs.cloudflare.com", "/ajax/libs/font-awesome/6.4.0/css/",
      "all.min.css">>

STATIC_FILES ==
    {<<"/">>, <<"/", "index.html">>, <<"/", "styles.css">>,
     <<"/", "js", "/", "app.js">>, <<"/", "js", "/", "quiz.js">>,
     <<"/", "js", "/", "creator.js">>, <<"/", "js", "/", "storage.js">>,
     <<"/", "js", "/", "stats.js">>, <<"/", "js", "/", "pwa.js">>,
     <<"/", "manifest.json">>, <<"/", "icon-192.png">>, <<"/", "icon-512.png">>,
     CdnStylesheet}

DYNAMIC_FILES == {<<"/", "api", "/">>, <<"/", "data", "/">>, <<"/", "assets", "/">>}

NETWORK_ONLY == {<<"/", "api", "/", "sync">>, <<"/", "api", "/", "update">>}

Https == <<"http", "s:">>
ChromeExtension == <<"chrome-extension:">>

Url(protocol, host, pathname) == [protocol |-> protocol, host |-> host, pathname |-> pathname]

\* new Request(url) in the worker: a path is resolved against the worker's origin
Resolve(file) ==
    IF StartsWith(file, Https)
    THEN Url(Https, file[4], SubSeq(file, 5, Len(file)))
    ELSE Url(Https, "origin", file)

Request(method, url, mode) == [method |-> method, url |-> url, mode |-> mode]

\* Responses: one served by the network in some version, and the ones the worker makes
Response(status, body) == [status |-> status, body |-> body]

Versions == 1..MaxVersion

\* what fetch(request) comes to: a response, or a rejection when the network is down
NetworkFails == [failed |-> TRUE]
NetworkOutcomes ==
    {Response(200, [version |-> v]) : v \in Versions}
    \cup {Response(404, [version |-> 1]), NetworkFails}

Rejects(net) == "failed" \in DOMAIN net

\* networkResponse.ok
Ok(response) == response.status \in 200..299

\* new Response(text, { status: 503, statusText: 'Service Unavailable' })
Unavailable(text) == Response(503, [text |-> text])

\* what the page gets when the promise handed to respondWith rejects
NetworkError == [error |-> "network error"]

\* caches.open(name): the cache is created when the origin has none of the name
Open(cs, name) ==
    IF \E i \in DOMAIN cs : cs[i].name = name THEN cs
    ELSE Append(cs, [name |-> name, entries |-> {}])

\* cache.addAll / cache.put on the cache called name, responses giving the response
\* of each URL: an entry of the same URL is replaced
PutEach(cs, name, responses) ==
    [i \in DOMAIN Open(cs, name) |->
        IF Open(cs, name)[i].name = name
        THEN [Open(cs, name)[i] EXCEPT
                !.entries = {en \in @ : en.url \notin DOMAIN responses}
                            \cup {[url |-> u, response |-> responses[u]] :
                                    u \in DOMAIN responses}]
        ELSE Open(cs, name)[i]]

PutAll(cs, name, urls, response) == PutEach(cs, name, [u \in urls |-> response])

Put(cs, name, url, response) == PutAll(cs, name, {url}, response)

\* caches.match(request): the entry of the first cache, in creation order, that has one
Match(cs, url) ==
    IF \E i \in DOMAIN cs : \E en \in cs[i].entries : en.url = url
    THEN LET first == CHOOSE i \in DOMAIN cs :
                        /\ \E en \in cs[i].entries : en.url = url
                        /\ \A j \in 1..(i - 1) : \A en \in cs[j].entries : en.url # url
         IN  (CHOOSE en \in cs[first].entries : en.url = url).response
    ELSE Undefined

\* The worker runs on an event loop: a listener or an async function runs up to
\* its next await and returns; the operation it waits for is settled by the
\* platform in a later turn, in any order with the operations that other
\* events wait for. pending holds the operations that wait, each with what
\* goes on when it settles:
\*   event     a fetch event (or a call of a strategy) at pc "match", "fetch",
\*             "open" or "matchRoot", with what it has looked up and fetched
\*   put       cache.put called and not awaited
\*   refresh   the background fetch of cacheFirstWithRefresh, then its open
\*   install   caches.open of the install listener, then cache.addAll
\*   activate  caches.keys of the activate listener
\*   delete    one caches.delete of the activate listener
\*   message   caches.open of cacheQuizData

\* no answer of the network: the event has not fetched
Unasked == [unasked |-> TRUE]

\* the cache a strategy writes to
CacheOf(strategy) ==
    IF strategy = "cacheFirst" THEN STATIC_CACHE_NAME ELSE DYNAMIC_CACHE_NAME

\* the first operation a responder waits for
FirstAwait(strategy) ==
    IF strategy \in {"cacheFirst", "cacheFirstWithRefresh"} THEN "match" ELSE "fetch"

PutTask(name, url, response) ==
    [kind |-> "put", pc |-> "put", name |-> name, url |-> url, response |-> response]

RefreshTask(url) == [kind |-> "refresh", pc |-> "fetch", url |-> url, net |-> Unasked]

InstallTask(pc) == [kind |-> "install", pc |-> pc]

ActivateTask == [kind |-> "activate", pc |-> "keys"]

DeleteTask(name) == [kind |-> "delete", pc |-> "delete", name |-> name]

MessageTask(data) == [kind |-> "message", pc |-> "open", data |-> data]

\* the operations that wait, of a kind and at a pc
Waiting(kind, pc) == {task \in BagToSet(pending) : task.kind = kind /\ task.pc = pc}

Without(task) == pending (-) SetToBag({task})

\* an async function at an await, or returned with a response and the
\* operations it leaves behind
Await(task, pc) ==
    [resolved |-> FALSE, task |-> [task EXCEPT !.pc = pc], response |-> Undefined,
     spawn |-> {}]

AwaitFetch(task) == Await([task EXCEPT !.networkCalls = @ + 1], "fetch")

AwaitMatch(task, pc) == Await([task EXCEPT !.cacheReads = @ + 1], pc)

Return(task, response, spawn) ==
    [resolved |-> TRUE, task |-> task, response |-> response, spawn |-> spawn]

\* CacheFirst that asks the network although the cache has the response
CacheFirstOnMatchNetworkAlways(task, cached) ==
    AwaitFetch([task EXCEPT !.cached = cached])

\* cacheFirst(request), after await caches.match(request)
CacheFirstOnMatch(task, cached) ==
    IF cached # Undefined
    THEN Return([task EXCEPT !.cached = cached], cached, {})
    ELSE AwaitFetch([task EXCEPT !.cached = cached])

\* cacheFirst(request), after await fetch(request)
CacheFirstOnFetch(task, net) ==
    IF Rejects(net)
    THEN Return([task EXCEPT !.net = net],
                Unavailable("Offline - Resource not available"), {})
    ELSE IF Ok(net) THEN Await([task EXCEPT !.net = net], "open")
    ELSE Return([task EXCEPT !.net = net], net, {})

\* NetworkFirst that answers a failed fetch with the 503 response in every case
NetworkFirstOnFetchNoFallback(task, net) ==
    IF Rejects(net)
    THEN Return([task EXCEPT !.net = net],
                Unavailable("Offline - Resource not available"), {})
    ELSE IF Ok(net) THEN Await([task EXCEPT !.net = net], "open")
    ELSE Return([task EXCEPT !.net = net], net, {})

\* networkFirst(request), after await fetch(request)
NetworkFirstOnFetch(task, net) ==
    IF Rejects(net) THEN AwaitMatch([task EXCEPT !.net = net], "match")
    ELSE IF Ok(net) THEN Await([task EXCEPT !.net = net], "open")
    ELSE Return([task EXCEPT !.net = net], net, {})

\* networkFirst(request), after await caches.match(request) in the catch block
NetworkFirstOnMatch(task, cached) ==
    Return([task EXCEPT !.cached = cached],
           IF cached # Undefined THEN cached
           ELSE Unavailable("Offline - Resource not available"), {})

\* CacheFirstWithRefresh that waits for the network although it has a cached copy
CacheFirstWithRefreshOnMatchAwaited(task, cached) ==
    AwaitFetch([task EXCEPT !.cached = cached])

\* cacheFirstWithRefresh(request), after await caches.match(request): with a
\* cached copy the refresh is started and the copy returned
CacheFirstWithRefreshOnMatch(task, cached) ==
    IF cached # Undefined
    THEN Return([task EXCEPT !.cached = cached, !.networkCalls = @ + 1], cached,
                {RefreshTask(task.request.url)})
    ELSE AwaitFetch([task EXCEPT !.cached = cached])

\* cacheFirstWithRefresh(request), after await fetch(request)
CacheFirstWithRefreshOnFetch(task, net) ==
    IF Rejects(net)
    THEN IF task.request.mode = "navigate"
         THEN AwaitMatch([task EXCEPT !.net = net], "matchRoot")
         ELSE Return([task EXCEPT !.net = net], Unavailable("Offline"), {})
    ELSE IF Ok(net) THEN Await([task EXCEPT !.net = net], "open")
    ELSE Return([task EXCEPT !.net = net], net, {})

\* cacheFirstWithRefresh(request): return caches.match('/'), as it settles
CacheFirstWithRefreshOnMatchRoot(task, cached) == Return(task, cached, {})

\* fetch(request) handed to respondWith as it is, and handleFetch(request)
NetworkOnlyOnFetch(task, net) ==
    Return([task EXCEPT !.net = net], IF Rejects(net) THEN NetworkError ELSE net, {})

\* after await caches.open(...): cache.put(request, networkResponse.clone()) is
\* called and not awaited, and the response is returned
OnOpen(task) ==
    Return([task EXCEPT !.cacheWrites = @ + 1], task.net,
           {PutTask(CacheOf(task.strategy), task.request.url, task.net)})

\* the continuation of the responder of an event after caches.match
OnMatch(task, cached) ==
    IF task.pc = "matchRoot" THEN CacheFirstWithRefreshOnMatchRoot(task, cached)
    ELSE IF task.strategy = "cacheFirst" THEN CacheFirstOnMatch(task, cached)
    ELSE IF task.strategy = "networkFirst" THEN NetworkFirstOnMatch(task, cached)
    ELSE CacheFirstWithRefreshOnMatch(task, cached)

\* the continuation of the responder of an event after fetch
OnFetch(task, net) ==
    IF task.strategy = "cacheFirst" THEN CacheFirstOnFetch(task, net)
    ELSE IF task.strategy = "networkFirst" THEN NetworkFirstOnFetch(task, net)
    ELSE IF task.strategy = "cacheFirstWithRefresh"
    THEN CacheFirstWithRefreshOnFetch(task, net)
    ELSE NetworkOnlyOnFetch(task, net)

\* the URL caches.match is called with
LookedUp(task) == IF task.pc = "matchRoot" THEN Resolve(<<"/">>) ELSE task.request.url

\* fetch(request).then(networkResponse => { if (networkResponse.ok) { const cache =
\* caches.open(DYNAMIC_CACHE_NAME); ... } }).catch(() => {}): what waits after the
\* answer to the background fetch
RefreshOnFetch(task, net) ==
    IF ~Rejects(net) /\ Ok(net) THEN {[task EXCEPT !.pc = "open", !.net = net]} ELSE {}

-----------------------------------------------------------------------------
(* The service worker: events *)

\* what a fetch listener did with an event
NotResponded == [responded |-> FALSE, strategy |-> "none"]

RespondedWith(strategy) == [responded |-> TRUE, strategy |-> strategy]

\* the first listener: self.addEventListener('fetch', ...) of the FETCH EVENT section
FetchListener(request) ==
    IF request.method # "GET" THEN NotResponded
    ELSE IF ~StartsWith(request.url.protocol, <<"http">>) THEN NotResponded
    ELSE IF \E pattern \in NETWORK_ONLY : StartsWith(request.url.pathname, pattern)
    THEN RespondedWith("fetch")
    ELSE IF \E file \in STATIC_FILES :
                request.url.pathname = file \/ EndsWith(request.url.pathname, file)
    THEN RespondedWith("cacheFirst")
    ELSE IF \E pattern \in DYNAMIC_FILES : StartsWith(request.url.pathname, pattern)
    THEN RespondedWith("networkFirst")
    ELSE RespondedWith("cacheFirstWithRefresh")

\* the second listener, of the PERFORMANCE MONITORING section: it responds to
\* every event it gets with handleFetch(event.request)
MonitoringListener(request) == RespondedWith("handleFetch")

\* what the listeners that ran did together
Handled(ran) ==
    [respondWith |-> Cardinality({i \in DOMAIN ran : ran[i].responded}),
     listeners |-> Len(ran),
     strategy |-> ran[Len(ran)].strategy]

\* Dispatch with every listener run on every event
DispatchToAll(request) ==
    Handled(<<FetchListener(request), MonitoringListener(request)>>)

\* The fetch event goes to the listeners in the order they were added.
\* event.respondWith sets the event's stop-immediate-propagation flag, so a
\* listener added after the one that responded is not run.
Dispatch(request) ==
    IF FetchListener(request).responded
    THEN Handled(<<FetchListener(request)>>)
    ELSE Handled(<<FetchListener(request), MonitoringListener(request)>>)

\* an event whose responder has run up to its first await; prior is what the
\* caches hold for the request as the event is dispatched
EventTask(op, request, handled, prior) ==
    [kind |-> "event", op |-> op, request |-> request, prior |-> prior,
     strategy |-> handled.strategy,
     respondWith |-> handled.respondWith, listeners |-> handled.listeners,
     pc |-> FirstAwait(handled.strategy), net |-> Unasked, cached |-> Undefined,
     networkCalls |-> (IF FirstAwait(handled.strategy) = "fetch" THEN 1 ELSE 0),
     cacheReads |-> (IF FirstAwait(handled.strategy) = "match" THEN 1 ELSE 0),
     cacheWrites |-> 0]

\* Caches the origin may hold when a new worker is installed: two of
\* generations before and one that another script of the origin made.
OldGeneration ==
    [name |-> <<"quiz-pro-", "static-v0.9.0">>,
     entries |-> {[url |-> Resolve(<<"/", "index.html">>),
                   response |-> Response(200, [version |-> 1])]}]

\* const CACHE_NAME = 'quiz-pro-v1.0.0': the name no code of the worker uses
CACHE_NAME == <<"quiz-pro-", "v1.0.0">>

\* the cache of that name, as a worker before this one left it
FirstGeneration ==
    [name |-> CACHE_NAME,
     entries |-> {[url |-> Resolve(<<"/", "about">>),
                   response |-> Response(200, [version |-> 1])]}]

ForeignCache ==
    [name |-> <<"notes-", "v1">>,
     entries |-> {[url |-> Resolve(<<"/", "about">>),
                   response |-> Response(200, [version |-> 1])]}]

\* pathnames of the origin that pages request
Pathnames ==
    {<<"/", "index.html">>, <<"/", "quiz", "/", "index.html">>,
     <<"/", "api", "/", "sync", "/">>, <<"/", "api", "/", "questions">>,
     <<"/", "data", "/">>, <<"/", "about">>}

\* fetch events: GET requests of every pathname and of the CDN stylesheet, page
\* navigations, a POST, and a request of a browser extension
Requests ==
    {Request("GET", Resolve(p), "cors") : p \in Pathnames \cup {CdnStylesheet}}
    \cup {Request("GET", Resolve(p), "navigate") : p \in {<<"/">>, <<"/", "about">>}}
    \cup {Request("POST", Resolve(p), "cors") :
            p \in {<<"/", "api", "/", "questions">>, <<"/", "index.html">>}}
    \cup {Request("GET", Url(ChromeExtension, "extension", <<"/", "index.html">>), "cors")}

InitWorker ==
    /\ questions = <<>>
    /\ collections = <<>>
    /\ history = <<>>
    /\ settings = "absent"
    /\ imports = <<>>
    /\ now = 1
    /\ nextId = 0
    /\ backup = Null
    /\ nImports = 0
    /\ quota = StorageLimit
    /\ last = NoCall
    /\ caches \in {<<>>, <<OldGeneration, FirstGeneration, ForeignCache>>}
    /\ swState = "parsed"
    /\ pending = EmptyBag
    /\ nFetches = 0
    /\ nMessages = 0
    /\ PageLoaded

\* STATIC_FILES.map(url => new Request(url, { cache: 'reload' }))
StaticRequests == {Resolve(file) : file \in STATIC_FILES}

\* the responses cache.addAll accepts
OkOutcomes == {net \in NetworkOutcomes : ~Rejects(net) /\ Ok(net)}

\* cache.addAll fulfils when every response is ok
AllOk(answers) == \A url \in DOMAIN answers : ~Rejects(answers[url]) /\ Ok(answers[url])

\* install: the listener calls caches.open(STATIC_CACHE_NAME) and skipWaiting,
\* hands their promises to waitUntil and returns
Install ==
    /\ swState = "parsed"
    /\ swState' = "installing"
    /\ pending' = pending (+) SetToBag({InstallTask("open")})
    /\ last' = [op |-> "install"]
    /\ UNCHANGED <<caches, nFetches, nMessages, storageVars, pageVars>>

\* caches.open(STATIC_CACHE_NAME) settles: the cache exists, and cache.addAll
\* requests every static file
InstallOpened ==
    /\ InstallTask("open") \in Waiting("install", "open")
    /\ caches' = Open(caches, STATIC_CACHE_NAME)
    /\ pending' = Without(InstallTask("open")) (+) SetToBag({InstallTask("addAll")})
    /\ UNCHANGED <<swState, last, nFetches, nMessages, storageVars, pageVars>>

\* the requests of cache.addAll are answered: the responses are put into the
\* static cache when all of them are ok; otherwise addAll rejects, nothing is
\* put and the installation fails
AddAllSettledWith(answers) ==
    /\ InstallTask("addAll") \in Waiting("install", "addAll")
    /\ pending' = Without(InstallTask("addAll"))
    /\ IF AllOk(answers)
       THEN /\ caches' = PutEach(caches, STATIC_CACHE_NAME, answers)
            /\ swState' = "installed"
       ELSE /\ caches' = caches
            /\ swState' = "redundant"
    /\ last' = [op |-> "addAll", installed |-> AllOk(answers)]
    /\ UNCHANGED <<nFetches, nMessages, storageVars, pageVars>>

\* cache.addAll settles, each of its requests answered on its own: every
\* response ok, each in a version of its own (a deployment while the worker
\* installs), or a response that is not ok or a request that fails, after which
\* nothing is put whatever the other answers are
AddAllSettled ==
    /\ InstallTask("addAll") \in Waiting("install", "addAll")
    /\ \/ \E answers \in [StaticRequests -> OkOutcomes] : AddAllSettledWith(answers)
       \/ \E failed \in StaticRequests, bad \in NetworkOutcomes \ OkOutcomes,
             good \in OkOutcomes :
               AddAllSettledWith([url \in StaticRequests |->
                                       IF url = failed THEN bad ELSE good])

\* the types of message the listener tells apart, and one it does not know
MessageTypes == {"SKIP_WAITING", "CHECK_UPDATE", "CACHE_QUIZ_DATA", "SCHEDULE_SYNC", "OTHER"}

\* message: a page posts a message to the worker, which may be installing,
\* waiting or active. cacheQuizData(data) runs up to await caches.open(...);
\* skipWaiting, checkForUpdate and scheduleBackgroundSync touch no cache.
Message ==
    \E type \in MessageTypes :
        /\ swState \in {"installing", "installed", "activating", "activated"}
        /\ nMessages < MaxMessages
        /\ nMessages' = nMessages + 1
        /\ pending' = IF type = "CACHE_QUIZ_DATA"
                      THEN pending (+) SetToBag({MessageTask("quiz")})
                      ELSE pending
        /\ UNCHANGED <<caches, swState, last, nFetches, storageVars, pageVars>>

\* cacheQuizData(data), after await caches.open(DYNAMIC_CACHE_NAME): new
\* Response(JSON.stringify(data)) is put under '/offline-quiz-data'
CacheQuizData(task) ==
    PutTask(DYNAMIC_CACHE_NAME, Resolve(<<"/", "offline-quiz-data">>),
            Response(200, [data |-> task.data]))

MessageOpened ==
    \E task \in Waiting("message", "open") :
        /\ caches' = Open(caches, DYNAMIC_CACHE_NAME)
        /\ pending' = Without(task) (+) SetToBag({CacheQuizData(task)})
        /\ UNCHANGED <<swState, last, nFetches, nMessages, storageVars, pageVars>>

\* a cache.put settles: the entry is in the cache
PutSettled ==
    \E task \in Waiting("put", "put") :
        /\ caches' = Put(caches, task.name, task.url, task.response)
        /\ pending' = Without(task)
        /\ UNCHANGED <<swState, last, nFetches, nMessages, storageVars, pageVars>>

\* the caches of another generation: cacheName !== STATIC_CACHE_NAME &&
\* cacheName !== DYNAMIC_CACHE_NAME && cacheName.startsWith('quiz-pro-')
Outdated(cs) ==
    {cs[i].name : i \in {j \in DOMAIN cs : /\ cs[j].name # STATIC_CACHE_NAME
                                            /\ cs[j].name # DYNAMIC_CACHE_NAME
                                            /\ StartsWith(cs[j].name, <<"quiz-pro-">>)}}

\* activate: the listener calls caches.keys() and clients.claim(), hands their
\* promises to waitUntil and returns
Activate ==
    /\ swState = "installed"
    /\ swState' = "activating"
    /\ pending' = pending (+) SetToBag({ActivateTask})
    /\ UNCHANGED <<caches, last, nFetches, nMessages, storageVars, pageVars>>

\* caches.keys() settles: caches.delete is called for every cache of another
\* generation there is; with none of them the worker is activated
KeysSettled ==
    /\ ActivateTask \in Waiting("activate", "keys")
    /\ pending' = Without(ActivateTask)
                    (+) SetToBag({DeleteTask(name) : name \in Outdated(caches)})
    /\ swState' = IF Outdated(caches) = {} THEN "activated" ELSE swState
    /\ last' = IF Outdated(caches) = {} THEN [op |-> "activate"] ELSE last
    /\ UNCHANGED <<caches, nFetches, nMessages, storageVars, pageVars>>

\* one caches.delete settles; with the last of them the worker is activated
DeleteSettled ==
    \E task \in Waiting("delete", "delete") :
        /\ caches' = SelectSeq(caches, LAMBDA c : c.name # task.name)
        /\ pending' = Without(task)
        /\ swState' = IF Waiting("delete", "delete") = {task} THEN "activated"
                      ELSE swState
        /\ last' = IF Waiting("delete", "delete") = {task} THEN [op |-> "activate"]
                   ELSE last
        /\ UNCHANGED <<nFetches, nMessages, storageVars, pageVars>>

\* what an event came to: the response its responder resolved to and what the
\* responder did; prior is what the caches held for the request when the event
\* was dispatched, cached what the responder's lookup found, and stored what
\* the caches held for the request when the responder resolved
Answered(task, response, stored, changed) ==
    [op |-> task.op, request |-> task.request, net |-> task.net,
     respondWith |-> task.respondWith, listeners |-> task.listeners,
     strategy |-> task.strategy, response |-> response,
     networkCalls |-> task.networkCalls, cacheReads |-> task.cacheReads,
     cacheWrites |-> task.cacheWrites, prior |-> task.prior, cached |-> task.cached,
     stored |-> stored,
     changed |-> changed]

\* the responder of an event goes on as the operation it waited for settles,
\* with cs the caches after it
Stepped(task, outcome, cs) ==
    /\ caches' = cs
    /\ pending' = IF outcome.resolved THEN Without(task) (+) SetToBag(outcome.spawn)
                  ELSE Without(task) (+) SetToBag({outcome.task})
    /\ last' = IF outcome.resolved
               THEN Answered(outcome.task, outcome.response,
                             Match(caches, task.request.url), cs # caches)
               ELSE last
    /\ UNCHANGED <<swState, nFetches, nMessages, storageVars, pageVars>>

\* a fetch event of a controlled page: the listeners run, and the responder
\* runs up to its first await
Fetch ==
    \E request \in Requests :
        /\ swState = "activated"
        /\ nFetches < MaxFetches
        /\ nFetches' = nFetches + 1
        /\ pending' = pending (+) SetToBag({EventTask("fetch", request, Dispatch(request),
                                                Match(caches, request.url))})
        /\ UNCHANGED <<caches, swState, last, nMessages, storageVars, pageVars>>

\* caches.match settles for an event
MatchSettled ==
    \E task \in Waiting("event", "match") \cup Waiting("event", "matchRoot") :
        Stepped(task, OnMatch(task, Match(caches, LookedUp(task))), caches)

\* the network answers the fetch of an event, or the fetch fails
FetchAnswered ==
    \E task \in Waiting("event", "fetch"), net \in NetworkOutcomes :
        Stepped(task, OnFetch(task, net), caches)

\* caches.open settles for an event
OpenSettled ==
    \E task \in Waiting("event", "open") :
        Stepped(task, OnOpen(task), Open(caches, CacheOf(task.strategy)))

\* the network answers a background refresh, or the refresh fails
RefreshDone ==
    \E task \in Waiting("refresh", "fetch"), net \in NetworkOutcomes :
        /\ pending' = Without(task) (+) SetToBag(RefreshOnFetch(task, net))
        /\ last' = [op |-> "refresh", url |-> task.url, net |-> net,
                    waits |-> RefreshOnFetch(task, net) # {}]
        /\ UNCHANGED <<caches, swState, nFetches, nMessages, storageVars, pageVars>>

\* caches.open(DYNAMIC_CACHE_NAME) settles for a background refresh:
\* cache.then(c => c.put(request, networkResponse))
RefreshOpened ==
    \E task \in Waiting("refresh", "open") :
        /\ caches' = Open(caches, DYNAMIC_CACHE_NAME)
        /\ pending' = Without(task)
                        (+) SetToBag({PutTask(DYNAMIC_CACHE_NAME, task.url, task.net)})
        /\ UNCHANGED <<swState, last, nFetches, nMessages, storageVars, pageVars>>

\* The life of the worker from its installation to its activation, with every
\* request of cache.addAll answered on its own and with the messages of the
\* pages; the fetch events of the activated worker follow below
NextWorker ==
    \/ Install
    \/ InstallOpened
    \/ AddAllSettled
    \/ Message
    \/ MessageOpened
    \/ PutSettled
    \/ Activate
    \/ KeysSettled
    \/ DeleteSettled

SpecWorker == InitWorker /\ [][NextWorker]_vars

\* The fetch events of an active worker on their own. The caches the worker
\* may hold when it has been activated: the static cache as install filled
\* it, alone, after a cache of another script, or after the dynamic cache that
\* a CACHE_QUIZ_DATA message made while the worker installed.
Installed(cs) ==
    PutEach(cs, STATIC_CACHE_NAME,
            [url \in StaticRequests |-> Response(200, [version |-> 1])])

ActiveContents ==
    {Installed(<<>>), Installed(<<ForeignCache>>),
     Installed(Put(<<>>, DYNAMIC_CACHE_NAME, Resolve(<<"/", "offline-quiz-data">>),
                   Response(200, [data |-> "quiz"])))}

InitFetch ==
    /\ questions = <<>>
    /\ collections = <<>>
    /\ history = <<>>
    /\ settings = "absent"
    /\ imports = <<>>
    /\ now = 1
    /\ nextId = 0
    /\ backup = Null
    /\ nImports = 0
    /\ quota = StorageLimit
    /\ last = NoCall
    /\ caches \in ActiveContents
    /\ swState = "activated"
    /\ pending = EmptyBag
    /\ nFetches = 0
    /\ nMessages = 0
    /\ PageLoaded

NextFetch ==
    \/ Fetch
    \/ MatchSettled
    \/ FetchAnswered
    \/ OpenSettled
    \/ PutSettled
    \/ RefreshDone
    \/ RefreshOpened

SpecFetch == InitFetch /\ [][NextFetch]_vars

-----------------------------------------------------------------------------
(* The caching strategies over any content of the origin's caches *)

\* The Cache Storage belongs to the origin, not to the worker: the browser and
\* every script of the origin may delete caches while the worker stays active.
\* The contents the strategies are applied to: nothing cached, only a cache of
\* another script, and the static cache as install fills it.
CacheContents ==
    {<<>>, <<ForeignCache>>}
    \cup {PutEach(<<>>, STATIC_CACHE_NAME, [url \in StaticRequests |-> net]) :
            net \in OkOutcomes}

InitStrategies ==
    /\ questions = <<>>
    /\ collections = <<>>
    /\ history = <<>>
    /\ settings = "absent"
    /\ imports = <<>>
    /\ now = 1
    /\ nextId = 0
    /\ backup = Null
    /\ nImports = 0
    /\ quota = StorageLimit
    /\ last = NoCall
    /\ caches \in CacheContents
    /\ swState = "activated"
    /\ pending = EmptyBag
    /\ nFetches = 0
    /\ nMessages = 0
    /\ PageLoaded

GetRequests == {request \in Requests : request.method = "GET"}

\* a strategy called on a request: it runs up to its first await
StrategyCalled(strategy) ==
    \E request \in GetRequests :
        /\ nFetches < MaxFetches
        /\ nFetches' = nFetches + 1
        /\ pending' = pending (+) SetToBag({EventTask(strategy, request,
                                                Handled(<<RespondedWith(strategy)>>),
                                                Match(caches, request.url))})
        /\ UNCHANGED <<caches, swState, last, nMessages, storageVars, pageVars>>

CacheFirstCalled == StrategyCalled("cacheFirst")

NetworkFirstCalled == StrategyCalled("networkFirst")

CacheFirstWithRefreshCalled == StrategyCalled("cacheFirstWithRefresh")

NextStrategies ==
    \/ CacheFirstCalled
    \/ NetworkFirstCalled
    \/ CacheFirstWithRefreshCalled
    \/ MatchSettled
    \/ FetchAnswered
    \/ OpenSettled
    \/ PutSettled
    \/ RefreshDone
    \/ RefreshOpened

SpecStrategies == InitStrategies /\ [][NextStrategies]_vars

-----------------------------------------------------------------------------
(* setItem over a store that rejects every write: localStorage.setItem raises *)
(* QuotaExceededError each time. The calls are followed frame by frame.       *)

\* frames the engine's call stack holds before a further call raises RangeError
StackLimit == 6

Frame(fn, pc) == [fn |-> fn, pc |-> pc]

Top == stack[Len(stack)]

\* the stack with the top frame at another position of its code
TopAt(pc) == [stack EXCEPT ![Len(stack)] = Frame(Top.fn, pc)]

\* the stack once the top frame, now at pc, has called fn
Calling(pc, fn, entry) == Append(TopAt(pc), Frame(fn, entry))

Popped == SubSeq(stack, 1, Len(stack) - 1)

\* history.length > 20 in handleStorageFull, history read by getQuizHistory()
HistoryTooLong == Len(GetQuizHistory(history, DefaultLimit)) > KeptWhenFull

\* the top frame is about to make a call
AboutToCall ==
    /\ stack # <<>>
    /\ \/ Top = Frame("setItem", "write")
       \/ Top = Frame("handleStorageFull", "history") /\ HistoryTooLong
       \/ Top = Frame("handleStorageFull", "imports")

InitRejecting ==
    /\ questions = <<>>
    /\ collections = <<>>
    /\ \E n \in 0..MaxStored :
            /\ history = StoredHistory(LedgerNow, n, 0, 50)
            /\ nextId = n
    /\ settings = "absent"
    /\ imports = <<>>
    /\ now = LedgerNow
    /\ backup = Null
    /\ nImports = 0
    /\ quota = StorageLimit
    /\ last = NoCall
    /\ WorkerParsed
    /\ PageLoaded

\* saveQuestion, saveQuizResult or importData reaches its setItem call
SetItemCalled ==
    /\ stack = <<>>
    /\ stack' = <<Frame("setItem", "write")>>
    /\ last' = [op |-> "call"]
    /\ UNCHANGED <<offlineQueue, storedQueue, drains, tabs, storageVars, workerVars>>

\* setItem: the write raises QuotaExceededError, the catch block calls handleStorageFull
WriteRejected ==
    /\ stack # <<>>
    /\ Top = Frame("setItem", "write")
    /\ Len(stack) < StackLimit
    /\ stack' = Calling("catch", "handleStorageFull", "history")
    /\ last' = [op |-> "step"]
    /\ UNCHANGED <<offlineQueue, storedQueue, drains, tabs, storageVars, workerVars>>

\* handleStorageFull: if (history.length > 20) this.setItem(history, history.slice(0, 20))
HistoryCut ==
    /\ stack # <<>>
    /\ Top = Frame("handleStorageFull", "history")
    /\ HistoryTooLong => Len(stack) < StackLimit
    /\ stack' = IF HistoryTooLong THEN Calling("imports", "setItem", "write")
                ELSE TopAt("imports")
    /\ last' = [op |-> "step"]
    /\ UNCHANGED <<offlineQueue, storedQueue, drains, tabs, storageVars, workerVars>>

\* handleStorageFull: getQuizHistory() reads the key through getItem, whose try
\* block takes the RangeError that localStorage.getItem or JSON.parse raises for
\* want of room on the stack and returns the default, []: history.length > 20 is
\* false whatever is stored. How much room the read needs is up to the engine.
HistoryReadFails ==
    /\ stack # <<>>
    /\ Top = Frame("handleStorageFull", "history")
    /\ stack' = TopAt("imports")
    /\ last' = [op |-> "step"]
    /\ UNCHANGED <<offlineQueue, storedQueue, drains, tabs, storageVars, workerVars>>

\* handleStorageFull: this.setItem(this.storageKeys.imports, [])
ImportsEmptied ==
    /\ stack # <<>>
    /\ Top = Frame("handleStorageFull", "imports")
    /\ Len(stack) < StackLimit
    /\ stack' = Calling("done", "setItem", "write")
    /\ last' = [op |-> "step"]
    /\ UNCHANGED <<offlineQueue, storedQueue, drains, tabs, storageVars, workerVars>>

\* handleStorageFull returns to the catch block that called it
HandleStorageFullReturns ==
    /\ stack # <<>>
    /\ Top = Frame("handleStorageFull", "done")
    /\ stack' = Popped
    /\ last' = [op |-> "step"]
    /\ UNCHANGED <<offlineQueue, storedQueue, drains, tabs, storageVars, workerVars>>

\* setItem: return false at the end of the catch block
SetItemReturns ==
    /\ stack # <<>>
    /\ Top = Frame("setItem", "catch")
    /\ stack' = Popped
    /\ last' = IF stack' = <<>> THEN [op |-> "setItem", threw |-> FALSE, depth |-> 1]
               ELSE [op |-> "step"]
    /\ UNCHANGED <<offlineQueue, storedQueue, drains, tabs, storageVars, workerVars>>

\* a call with the stack full raises RangeError. Raised by the call of
\* handleStorageFull in a catch block or by a call of setItem in
\* handleStorageFull, it is inside no try block of any frame and leaves the
\* outermost setItem.
RangeErrorEscapes ==
    /\ AboutToCall
    /\ Len(stack) = StackLimit
    /\ stack' = <<>>
    /\ last' = [op |-> "setItem", threw |-> TRUE, depth |-> Len(stack)]
    /\ UNCHANGED <<offlineQueue, storedQueue, drains, tabs, storageVars, workerVars>>

\* the write itself (JSON.stringify, localStorage.setItem) needs room on the
\* stack: it may raise RangeError inside the try block, which the catch block
\* takes; it is no QuotaExceededError, and setItem returns false. How much room
\* the write needs, and so at which depth it is short of it, is up to the engine.
RangeErrorCaught ==
    /\ stack # <<>>
    /\ Top = Frame("setItem", "write")
    /\ stack' = Popped
    /\ last' = IF stack' = <<>> THEN [op |-> "setItem", threw |-> FALSE, depth |-> 1]
               ELSE [op |-> "step"]
    /\ UNCHANGED <<offlineQueue, storedQueue, drains, tabs, storageVars, workerVars>>

NextRejecting ==
    \/ SetItemCalled
    \/ WriteRejected
    \/ HistoryCut
    \/ HistoryReadFails
    \/ ImportsEmptied
    \/ HandleStorageFullReturns
    \/ SetItemReturns
    \/ RangeErrorEscapes
    \/ RangeErrorCaught

SpecRejecting == InitRejecting /\ [][NextRejecting]_vars

-----------------------------------------------------------------------------
(* The offline queue of the page (src/js/creator.js, class PWAManager) and  *)
(* the background sync of the worker (src/sw.js)                            *)

\* actions queued over the whole run
MaxQueued == 3

\* processOfflineQueue calls in progress at a time
MaxDrains == 2

ActionTypes == {"save-question", "save-result", "other"}

\* processOfflineAction(action): every case of its switch only breaks or logs;
\* it sends no request and never throws
ProcessOfflineAction(action) == [threw |-> FALSE, requests |-> 0, delivered |-> FALSE]

\* the actions processOfflineQueue pushes back: those whose processing threw
Requeued(queue) == SelectSeq(queue, LAMBDA action : ProcessOfflineAction(action).threw)

\* the actions of the queue that a request delivered to the server
Delivered(queue) ==
    {queue[i] : i \in {j \in 1..Len(queue) : ProcessOfflineAction(queue[j]).delivered}}

\* getPendingSync(type): the mock implementation, always the empty list
GetPendingSync(type) == <<>>

\* index of the first entry whose fetch rejects, 0 when none does
FirstRejected(pendingData, nets) ==
    LET rejected == {i \in 1..Len(pendingData) : Rejects(nets[i])}
    IN  IF rejected = {} THEN 0 ELSE CHOOSE i \in rejected : \A j \in rejected : i <= j

\* syncQuizData / syncQuizResults over the pending entries, nets[i] the outcome of
\* the POST of entry i: a POST that resolves counts whatever its status, a POST
\* that rejects ends the loop and the error is rethrown; clearPendingSync is
\* reached when no POST rejected
SyncPending(pendingData, nets) ==
    LET stop == FirstRejected(pendingData, nets)
    IN  [threw     |-> stop # 0,
         requests  |-> IF stop = 0 THEN Len(pendingData) ELSE stop,
         delivered |-> {pendingData[i] : i \in {j \in 1..Len(pendingData) :
                            /\ (stop = 0 \/ j < stop)
                            /\ Ok(nets[j])}},
         cleared   |-> Len(pendingData) > 0 /\ stop = 0]

\* a value of the key 'pwa-offline-queue' that JSON.parse rejects, left by another
\* script of the origin
Unparsable == [kind |-> "unparsable"]

\* a processOfflineQueue call in progress: its copy of the list, and the position
\* of the action whose processOfflineAction it awaits
Drain(queue, at) == [queue |-> queue, at |-> at]

\* the list after the await of an action: the action is pushed back when its
\* processing threw
AfterAction(queue, action) ==
    IF ProcessOfflineAction(action).threw THEN Append(queue, action) ELSE queue

\* loadOfflineQueue(): if (stored) { try { JSON.parse } catch { [] } }
LoadedQueue(stored, queue) ==
    IF stored = Absent THEN queue
    ELSE IF stored = Unparsable THEN <<>>
    ELSE stored.items

SyncTags == {"quiz-data-sync", "quiz-results-sync"}

\* the type whose pending entries the handler of a tag replays
PendingType(tag) == IF tag = "quiz-data-sync" THEN "quiz-data" ELSE "quiz-results"

InitSync ==
    /\ questions = <<>>
    /\ collections = <<>>
    /\ history = <<>>
    /\ settings = "absent"
    /\ imports = <<>>
    /\ now = 1
    /\ nextId = 0
    /\ backup = Null
    /\ nImports = 0
    /\ quota = StorageLimit
    /\ last = NoCall
    /\ caches = <<>>
    /\ swState = "activated"
    /\ pending = EmptyBag
    /\ nFetches = 0
    /\ nMessages = 0
    /\ offlineQueue = <<>>
    /\ storedQueue \in {Absent, Unparsable}
    /\ drains = <<>>
    /\ tabs = [t \in Tabs |-> Idle]
    /\ stack = <<>>

AddToOfflineQueue ==
    \E type \in ActionTypes :
        /\ now <= MaxQueued
        /\ offlineQueue' = Append(offlineQueue, [type |-> type, timestamp |-> now])
        /\ storedQueue' = Array(offlineQueue')
        /\ now' = now + 1
        /\ last' = [op |-> "addToOfflineQueue", type |-> type]
        /\ UNCHANGED <<questions, collections, history, settings, imports, nextId, backup,
                       nImports, drains, tabs, stack, quota, workerVars>>

\* processOfflineQueue() begins; the 'online' listener calls it and does not wait
\* for it. An empty list ends the call. Otherwise the list is copied and emptied,
\* processOfflineAction is called for the first action, and the call waits.
ProcessOfflineQueue ==
    /\ Len(drains) < MaxDrains
    /\ offlineQueue # <<>>
    /\ offlineQueue' = <<>>
    /\ drains' = Append(drains, Drain(offlineQueue, 1))
    /\ last' = [op |-> "online"]
    /\ UNCHANGED <<storedQueue, tabs, stack, storageVars, workerVars>>

\* the await of an action settles and the call goes on with the next action
ActionAwaited ==
    \E d \in DOMAIN drains :
        /\ drains[d].at < Len(drains[d].queue)
        /\ offlineQueue' = AfterAction(offlineQueue, drains[d].queue[drains[d].at])
        /\ drains' = [drains EXCEPT ![d] = Drain(@.queue, @.at + 1)]
        /\ last' = [op |-> "step"]
        /\ UNCHANGED <<storedQueue, tabs, stack, storageVars, workerVars>>

\* the await of the last action settles: the list as it is now is persisted and
\* the call ends
QueueProcessed ==
    \E d \in DOMAIN drains :
        /\ drains[d].at = Len(drains[d].queue)
        /\ offlineQueue' = AfterAction(offlineQueue, drains[d].queue[drains[d].at])
        /\ storedQueue' = Array(offlineQueue')
        /\ drains' = SubSeq(drains, 1, d - 1) \o SubSeq(drains, d + 1, Len(drains))
        /\ last' = [op |-> "processOfflineQueue", queue |-> drains[d].queue,
                    delivered |-> Delivered(drains[d].queue), remaining |-> offlineQueue']
        /\ UNCHANGED <<tabs, stack, storageVars, workerVars>>

\* the page is loaded again: the scripts of the page before end with it, calls
\* of processOfflineQueue in progress included, and the DOMContentLoaded listener
\* makes a new PWAManager, whose constructor sets offlineQueue = []. Neither the
\* constructor nor init() reads 'pwa-offline-queue', which stays as it is.
NewPWAManager ==
    /\ offlineQueue' = <<>>
    /\ drains' = <<>>
    /\ last' = [op |-> "load"]
    /\ UNCHANGED <<storedQueue, tabs, stack, storageVars, workerVars>>

\* loadOfflineQueue(): the list in memory becomes the persisted one when the key
\* holds one. No code of the page calls the method; it is called on
\* window.pwaManager.
LoadOfflineQueue ==
    /\ offlineQueue' = LoadedQueue(storedQueue, offlineQueue)
    /\ last' = [op |-> "loadOfflineQueue"]
    /\ UNCHANGED <<storedQueue, drains, tabs, stack, storageVars, workerVars>>

\* a sync event: the listener runs the handler of a known tag and logs any other
Sync ==
    \E tag \in SyncTags \cup {"other-sync"}, nets \in [1..MaxQueued -> NetworkOutcomes] :
        LET pendingData == IF tag \in SyncTags THEN GetPendingSync(PendingType(tag)) ELSE <<>>
            done == SyncPending(pendingData, nets)
        IN  /\ swState = "activated"
            /\ last' = [op |-> "sync", tag |-> tag, queue |-> pendingData,
                        delivered |-> done.delivered, threw |-> done.threw,
                        requests |-> done.requests,
                        remaining |-> GetPendingSync(PendingType(tag))]
            /\ UNCHANGED <<storageVars, workerVars, pageVars>>

NextSync ==
    \/ AddToOfflineQueue
    \/ ProcessOfflineQueue
    \/ ActionAwaited
    \/ QueueProcessed
    \/ NewPWAManager
    \/ LoadOfflineQueue
    \/ Sync

SpecSync == InitSync /\ [][NextSync]_vars

-----------------------------------------------------------------------------
(* The text format of questions (src/js/creator.js, parseSingleQuestionFromText; *)
(* src/unnamed/part_002, QuizModule.parseTextFormat). A line is the sequence of *)
(* its characters, a block the sequence of its lines.                           *)

\* option lines of the blocks parsed
MaxOptions == 3

Upper ==
    <<"A", "B", "C", "D", "E", "F", "G", "H", "I", "J", "K", "L", "M", "N", "O", "P", "Q", "R", "S", "T", "U", "V", "W", "X", "Y", "Z">>
Lower ==
    <<"a", "b", "c", "d", "e", "f", "g", "h", "i", "j", "k", "l", "m", "n", "o", "p", "q", "r", "s", "t", "u", "v", "w", "x", "y", "z">>

IsUpper(c) == \E i \in 1..Len(Upper) : Upper[i] = c
IsLower(c) == \E i \in 1..Len(Lower) : Lower[i] = c

\* position of a letter in the alphabet, from 1
Position(c) == CHOOSE i \in 1..Len(Upper) : Upper[i] = c \/ Lower[i] = c

\* the accented letters of Portuguese, which the patterns [A-Z] and [a-z] do not
\* match and which have the other case all the same
UpperAccented == <<"Á", "À", "Â", "Ã", "É", "Ê", "Í", "Ó", "Ô", "Õ", "Ú", "Ü", "Ç">>
LowerAccented == <<"á", "à", "â", "ã", "é", "ê", "í", "ó", "ô", "õ", "ú", "ü", "ç">>

IsUpperAccented(c) == \E i \in 1..Len(UpperAccented) : UpperAccented[i] = c
IsLowerAccented(c) == \E i \in 1..Len(LowerAccented) : LowerAccented[i] = c

AccentedPosition(c) ==
    CHOOSE i \in 1..Len(UpperAccented) : UpperAccented[i] = c \/ LowerAccented[i] = c

\* String.prototype.toUpperCase / toLowerCase on one character
ToUpperCase(c) ==
    IF IsLower(c) THEN Upper[Position(c)]
    ELSE IF IsLowerAccented(c) THEN UpperAccented[AccentedPosition(c)]
    ELSE c

ToLowerCase(c) ==
    IF IsUpper(c) THEN Lower[Position(c)]
    ELSE IF IsUpperAccented(c) THEN LowerAccented[AccentedPosition(c)]
    ELSE c

LowerCased(line) == [i \in 1..Len(line) |-> ToLowerCase(line[i])]

\* charCodeAt(0) of an upper-case letter
CharCode(c) == 64 + Position(c)

\* the characters String.prototype.trim strips: WhiteSpace and LineTerminator of
\* ECMAScript (those without an escape in a string are written by their code point)
WhiteSpace ==
    {" ", "\t", "\n", "\r", "\f", "U+000B", "U+00A0", "U+FEFF", "U+1680", "U+2000",
     "U+2001", "U+2002", "U+2003", "U+2004", "U+2005", "U+2006", "U+2007", "U+2008",
     "U+2009", "U+200A", "U+2028", "U+2029", "U+202F", "U+205F", "U+3000"}

\* String.prototype.trim
Trim(line) ==
    LET inked == {i \in 1..Len(line) : line[i] \notin WhiteSpace}
    IN  IF inked = {} THEN <<>>
        ELSE SubSeq(line, CHOOSE i \in inked : \A j \in inked : i <= j,
                          CHOOSE i \in inked : \A j \in inked : i >= j)

\* block.split('\n').map(line => line.trim()).filter(line => line)
TrimmedLines(block) ==
    SelectSeq([i \in 1..Len(block) |-> Trim(block[i])], LAMBDA line : line # <<>>)

\* line.match(/^[A-Za-z]\)/) when anyCase, line.match(/^[A-Z]\)/) otherwise
IsOptionLine(line, anyCase) ==
    /\ Len(line) >= 2
    /\ IsUpper(line[1]) \/ (anyCase /\ IsLower(line[1]))
    /\ line[2] = ")"

\* the line starts with 'answer:' or 'resposta:' once lower-cased
IsAnswerLine(line) ==
    \/ StartsWith(LowerCased(line), <<"a", "n", "s", "w", "e", "r", ":">>)
    \/ StartsWith(LowerCased(line), <<"r", "e", "s", "p", "o", "s", "t", "a", ":">>)

\* the line starts with 'explanation:' or 'explicação:' once lower-cased
IsExplanationLine(line) ==
    \/ StartsWith(LowerCased(line), <<"e", "x", "p", "l", "a", "n", "a", "t", "i", "o", "n", ":">>)
    \/ StartsWith(LowerCased(line), <<"e", "x", "p", "l", "i", "c", "a", "ç", "ã", "o", ":">>)

\* line.substring(line.indexOf(':') + 1).trim()
AfterColon(line) ==
    LET colons == {i \in 1..Len(line) : line[i] = ":"}
        first == CHOOSE i \in colons : \A j \in colons : i <= j
    IN  Trim(SubSeq(line, first + 1, Len(line)))

\* the lines after the first that the loop takes as options, in order
OptionsOf(lines, anyCase) ==
    SelectSeq(SubSeq(lines, 2, Len(lines)), LAMBDA line : IsOptionLine(line, anyCase))

\* the lines after the first that the loop assigns to answerLine, in order
AnswerLinesOf(lines, anyCase) ==
    SelectSeq(SubSeq(lines, 2, Len(lines)),
              LAMBDA line : ~IsOptionLine(line, anyCase) /\ IsAnswerLine(line))

\* the lines after the first that the loop takes as the explanation, in order
ExplanationsOf(lines, anyCase) ==
    SelectSeq(SubSeq(lines, 2, Len(lines)),
              LAMBDA line : /\ ~IsOptionLine(line, anyCase)
                            /\ ~IsAnswerLine(line)
                            /\ IsExplanationLine(line))

\* answerLine after the loop: the last answer line, '' when there is none
AnswerLineOf(lines, anyCase) ==
    LET found == AnswerLinesOf(lines, anyCase)
    IN  IF found = <<>> THEN <<>> ELSE found[Len(found)]

NoExplanation == <<"Sem explicação fornecida.">>

\* explanation || 'Sem explicação fornecida.'
ExplanationOf(lines, anyCase) ==
    LET found == ExplanationsOf(lines, anyCase)
    IN  IF found = <<>> \/ AfterColon(found[Len(found)]) = <<>> THEN NoExplanation
        ELSE AfterColon(found[Len(found)])

\* the positions of answerLine that /[A-Za-z]/ (anyCase) or /[A-Z]/ matches
LetterPositions(answerLine, anyCase) ==
    {i \in 1..Len(answerLine) : IsUpper(answerLine[i]) \/ (anyCase /\ IsLower(answerLine[i]))}

\* answerLine.match(/[A-Za-z]/)?.[0]?.toUpperCase() when anyCase,
\* answerLine.match(/[A-Z]/)?.[0] otherwise: the first such letter of the line,
\* for a line that has one
AnswerLetter(answerLine, anyCase) ==
    ToUpperCase(answerLine[CHOOSE i \in LetterPositions(answerLine, anyCase) :
                               \A j \in LetterPositions(answerLine, anyCase) : i <= j])

\* answerLetter ? answerLetter.charCodeAt(0) - 65 : -1
CorrectIndex(answerLine, anyCase) ==
    IF LetterPositions(answerLine, anyCase) = {} THEN -1
    ELSE CharCode(AnswerLetter(answerLine, anyCase)) - 65

\* whether the block yields a question
Yields(lines, anyCase) ==
    /\ Len(lines) >= 3
    /\ Len(OptionsOf(lines, anyCase)) >= 2
    /\ AnswerLineOf(lines, anyCase) # <<>>
    /\ CorrectIndex(AnswerLineOf(lines, anyCase), anyCase) >= 0
    /\ CorrectIndex(AnswerLineOf(lines, anyCase), anyCase) < Len(OptionsOf(lines, anyCase))

\* QuestionCreator.parseSingleQuestionFromText(block)
ParseSingleQuestionFromText(block) ==
    IF ~Yields(TrimmedLines(block), TRUE) THEN Null
    ELSE [text        |-> TrimmedLines(block)[1],
          type        |-> "multiple",
          options     |-> OptionsOf(TrimmedLines(block), TRUE),
          correct     |-> CorrectIndex(AnswerLineOf(TrimmedLines(block), TRUE), TRUE),
          explanation |-> ExplanationOf(TrimmedLines(block), TRUE)]

\* QuizModule.parseTextFormat(content) for a content of one block
ParseTextFormat(block) ==
    IF ~Yields(TrimmedLines(block), FALSE) THEN <<>>
    ELSE << [text        |-> TrimmedLines(block)[1],
             options     |-> OptionsOf(TrimmedLines(block), FALSE),
             correct     |-> CorrectIndex(AnswerLineOf(TrimmedLines(block), FALSE), FALSE),
             explanation |-> ExplanationOf(TrimmedLines(block), FALSE)] >>

QuestionLine == <<"Q", "?">>

\* the i-th option line: its letter, ')' and a text
OptionLine(i, lowerCase) ==
    <<IF lowerCase THEN Lower[i] ELSE Upper[i], ")", " ", Lower[i]>>

Keywords == {<<"A", "n", "s", "w", "e", "r">>, <<"a", "n", "s", "w", "e", "r">>, <<"R", "e", "s", "p", "o", "s", "t", "a">>, <<"r", "e", "s", "p", "o", "s", "t", "a">>}

\* what a line of the text is indented with
Indents == {<<>>, <<" ">>, <<"\t">>, <<"U+00A0", " ">>}

\* the answer line: an indentation, the keyword, ': ' and the letter
AnswerLine(keyword, letter, indent) == indent \o keyword \o <<":", " ", letter>>

\* the explanation line: 'Explicação: t' or 'EXPLICAÇÃO:' and a tab before t
ExplanationLines ==
    {<<"E", "x", "p", "l", "i", "c", "a", "ç", "ã", "o">> \o <<":", " ", "t">>,
     <<"E", "X", "P", "L", "I", "C", "A", "Ç", "Ã", "O">> \o <<":", "\t", "t">>}

\* a block as the split at line ends leaves it: the question line, k option
\* lines lettered from A (or a), an answer line and possibly an explanation line
TextBlock(in) ==
    <<QuestionLine>>
    \o [i \in 1..in.k |-> OptionLine(i, in.lowerCase)]
    \o <<AnswerLine(in.keyword, in.letter, in.indent)>>
    \o (IF in.explanation = <<>> THEN <<>> ELSE <<in.explanation>>)

TextInputs ==
    [k : 0..MaxOptions, lowerCase : BOOLEAN, keyword : Keywords,
     letter : {Upper[i] : i \in 1..(MaxOptions + 1)} \cup {Lower[i] : i \in 1..(MaxOptions + 1)},
     indent : Indents, explanation : {<<>>} \cup ExplanationLines]

\* a block of text waits to be parsed
InitParser ==
    /\ questions = <<>>
    /\ collections = <<>>
    /\ history = <<>>
    /\ settings = "absent"
    /\ imports = <<>>
    /\ now = 1
    /\ nextId = 0
    /\ backup = Null
    /\ nImports = 0
    /\ quota = StorageLimit
    /\ last \in {[op |-> "block", in |-> in] : in \in TextInputs}
    /\ WorkerParsed
    /\ PageLoaded

ParsedSingleQuestion ==
    /\ last.op = "block"
    /\ last' = [op |-> "parseSingleQuestionFromText", in |-> last.in,
                result |-> ParseSingleQuestionFromText(TextBlock(last.in))]
    /\ UNCHANGED <<storageVars, workerVars, pageVars>>

ParsedTextFormat ==
    /\ last.op = "block"
    /\ last' = [op |-> "parseTextFormat", in |-> last.in,
                result |-> ParseTextFormat(TextBlock(last.in))]
    /\ UNCHANGED <<storageVars, workerVars, pageVars>>

NextParser ==
    \/ ParsedSingleQuestion
    \/ ParsedTextFormat

SpecParser == InitParser /\ [][NextParser]_vars

-----------------------------------------------------------------------------
(* Validation of the question form (src/js/creator.js, validateQuestion) *)

\* options of the questions validated
MaxFormOptions == 11

MinTextLength == 10

\* the errors validateQuestion collects, in order
ValidationErrors(questionData) ==
    (IF questionData.text = <<>> \/ Len(questionData.text) < MinTextLength
     THEN <<"text">> ELSE <<>>)
    \o (IF questionData.type = "open" THEN <<>>
        ELSE (IF Len(questionData.options) < 2 THEN <<"options">> ELSE <<>>)
             \o (IF \E i \in 1..Len(questionData.options) : Trim(questionData.options[i]) = <<>>
                 THEN <<"empty">> ELSE <<>>)
             \o (IF Cardinality({LowerCased(questionData.options[i]) :
                                    i \in 1..Len(questionData.options)})
                    # Len(questionData.options)
                 THEN <<"duplicate">> ELSE <<>>)
             \o (IF questionData.correct >= Len(questionData.options)
                 THEN <<"correct">> ELSE <<>>))

\* QuestionCreator.validateQuestion(questionData)
ValidateQuestion(questionData) == ValidationErrors(questionData) = <<>>

\* a question text of n characters
TextOf(n) == [i \in 1..n |-> "x"]

Defects == {"none", "duplicate", "accented duplicate", "empty", "blank", "tab"}

\* n options with the texts A, B, ..; with a defect, the first one is empty, a
\* blank or a tab, or the second one is the first in lower case (the first being
\* 'Ç' for the accented duplicate)
FormOptions(n, defect) ==
    [i \in 1..n |->
        IF i = 1 /\ defect = "empty" THEN <<>>
        ELSE IF i = 1 /\ defect = "blank" THEN <<" ">>
        ELSE IF i = 1 /\ defect = "tab" THEN <<"\t">>
        ELSE IF i = 2 /\ defect = "duplicate" THEN <<Lower[1]>>
        ELSE IF i = 1 /\ defect = "accented duplicate" THEN <<"Ç">>
        ELSE IF i = 2 /\ defect = "accented duplicate" THEN <<"ç">>
        ELSE <<Upper[i]>>]

QuestionForms ==
    {[text    |-> TextOf(length),
      type    |-> type,
      options |-> FormOptions(n, defect),
      correct |-> correct] :
        length \in {0, MinTextLength - 1, MinTextLength},
        type \in {"multiple", "open"},
        n \in 0..MaxFormOptions,
        defect \in Defects,
        correct \in -1..(MaxFormOptions + 1)}

\* a filled form waits to be validated
InitValidator ==
    /\ questions = <<>>
    /\ collections = <<>>
    /\ history = <<>>
    /\ settings = "absent"
    /\ imports = <<>>
    /\ now = 1
    /\ nextId = 0
    /\ backup = Null
    /\ nImports = 0
    /\ quota = StorageLimit
    /\ last \in {[op |-> "form", questionData |-> q] : q \in QuestionForms}
    /\ WorkerParsed
    /\ PageLoaded

Validated ==
    /\ last.op = "form"
    /\ last' = [op |-> "validateQuestion", questionData |-> last.questionData,
                result |-> ValidateQuestion(last.questionData)]
    /\ UNCHANGED <<storageVars, workerVars, pageVars>>

NextValidator == Validated

SpecValidator == InitValidator /\ [][NextValidator]_vars

-----------------------------------------------------------------------------
(* Properties *)

NoDuplicateIds(s) == \A i, j \in DOMAIN s : i # j => s[i].id # s[j].id

ItemsOf(sec) == IF IsArray(sec) THEN sec.items ELSE <<>>
HasNull(sec) == \E i \in DOMAIN ItemsOf(sec) : IsNull(ItemsOf(sec)[i])

ImportDone == last.op = "importData"

\* C1: no two records of the stored question list have the same id, whatever
\* saveQuestion, deleteQuestion and importData calls were made.
C1_UniqueQuestionIds == NoDuplicateIds(questions)

\* C2: importData with mergeQuestions = true keeps every stored record at its
\* position, unchanged, and appends exactly the bundle records whose id no stored
\* record has, in the bundle's order.
C2_MergeAddsExactlyNew ==
    (ImportDone /\ ~IsNull(last.data) /\ last.opts.mergeQuestions)
    => LET pre == last.pre.questions
           items == ItemsOf(last.data.questions)
           new == {i \in DOMAIN items : ~IsNull(items[i]) /\ items[i].id \notin IdsOf(pre)}
       IN  /\ Len(questions) = Len(pre) + Cardinality(new)
           /\ \A k \in DOMAIN pre : questions[k] = pre[k]
           /\ \A i \in new :
                LET k == Len(pre) + Cardinality({j \in new : j <= i}) IN
                /\ questions[k].text = items[i].text
                /\ items[i].id # NoId => questions[k].id = items[i].id
                /\ items[i].id = NoId => questions[k].id \notin IdsOf(pre) \cup {NoId}

\* C3: importing a bundle a second time with mergeQuestions = true leaves the
\* question list as the first import left it, with no duplicate ids.
C3_MergeIdempotent ==
    (ImportDone /\ last.again # "no" /\ last.opts.mergeQuestions)
    => /\ questions = last.pre.questions
       /\ NoDuplicateIds(questions)

\* C4: after importData with mergeQuestions = false the stored list is exactly the
\* bundle's question records, in the bundle's order; nothing of the list stored
\* before remains.
C4_ReplaceWholesale ==
    (ImportDone /\ ~IsNull(last.data) /\ ~last.opts.mergeQuestions)
    => LET records == SelectSeq(ItemsOf(last.data.questions), LAMBDA e : ~IsNull(e)) IN
       /\ Len(questions) = Len(records)
       /\ \A i \in DOMAIN records :
            /\ questions[i].text = records[i].text
            /\ records[i].id # NoId => questions[i].id = records[i].id
            /\ records[i].id = NoId => questions[i].id \notin IdsOf(last.pre.questions)

RestoreDone == last.op = "restoreBackup" /\ ~last.threw /\ last.success

\* C5: after a successful restoreBackup the stored collections are those of
\* the backup.
C5_RestoreReplacesCollections ==
    RestoreDone => collections = last.data.collections.items

\* the records without the importedAt stamp that every import sets
Unstamped(s) == [i \in DOMAIN s |-> [s[i] EXCEPT !.importedAt = None]]

\* C6: a backup restored on an empty store gives back the questions, collections,
\* settings and history of the store the backup was taken from (the records are
\* compared without their importedAt stamp).
C6_BackupRoundTrip ==
    (RestoreDone /\ last.pre = EmptyStore)
    => /\ Unstamped(questions) = Unstamped(backup.taken.questions)
       /\ Unstamped(collections) = Unstamped(backup.taken.collections)
       /\ GetSettings(settings) = GetSettings(backup.taken.settings)
       /\ history = backup.taken.history

\* C7: importData with mergeHistory = true stores the union of the whole stored
\* history and the bundle's history, one entry per id, newest first, cut to 100;
\* when the union has at most 100 entries every stored entry is kept.
C7_HistoryMergeUnion ==
    (ImportDone /\ last.success /\ last.opts.mergeHistory /\ IsArray(last.data.history))
    => LET union == DedupeById(last.pre.history \o last.data.history.items) IN
       /\ history = Slice(SortByTimestampDesc(union), HistoryCap)
       /\ Len(union) <= HistoryCap
            => \A i \in DOMAIN last.pre.history :
                    \E j \in DOMAIN history : history[j] = last.pre.history[i]

\* the section of importData that raises on this bundle, "none" if none does
FailingSection(data, opts) ==
    IF IsNull(data) \/ HasNull(data.questions) THEN "questions"
    ELSE IF opts.mergeCollections /\ HasNull(data.collections) THEN "collections"
    ELSE IF opts.mergeHistory /\ HasNull(data.history) THEN "history"
    ELSE "none"

\* C8 as stated: when importData returns success = false the store is as it was
\* before the call.
C8_FailedImportChangesNothing ==
    (ImportDone /\ ~last.success) => Store = last.pre

\* C8, amended: when importData returns success = false, the call has written
\* neither the section that raised nor any section after it (questions,
\* collections, history, settings, import log, in this order): they are as before
\* the call, or, when setItem rejected the write of an earlier section for lack of
\* space, as handleStorageFull leaves what was there before the call (the history
\* cut to its 20 newest runs, the import log emptied). When the questions section
\* raises (a null bundle too), nothing is changed.
C8_FailedImportKeepsLaterSections ==
    (ImportDone /\ ~last.success)
    => LET failing == FailingSection(last.data, last.opts)
           kept == IF last.rejected THEN HandleStorageFull(last.pre) ELSE last.pre
       IN  /\ failing # "none"
           /\ imports = kept.imports
           /\ settings = kept.settings
           /\ history = kept.history
           /\ failing \in {"questions", "collections"} => collections = kept.collections
           /\ failing = "questions" => questions = kept.questions
           /\ failing = "questions" => ~last.rejected /\ Store = last.pre

\* an import that failed in the history section after it wrote the questions and
\* after setItem rejected its collections, on a store whose history was cut and
\* whose import log was emptied
C8_Witness ==
    /\ ImportDone /\ ~last.success /\ last.rejected
    /\ FailingSection(last.data, last.opts) = "history"
    /\ questions # last.pre.questions
    /\ collections = last.pre.collections
    /\ Len(last.pre.history) > KeptWhenFull /\ Len(history) = KeptWhenFull
    /\ last.pre.imports # <<>> /\ imports = <<>>

Malformed(data) ==
    \/ IsNull(data)
    \/ data.questions = NotArray \/ data.collections = NotArray
    \/ HasNull(data.questions) \/ HasNull(data.collections)

\* C9: importData returns success = false for every bundle that is null, whose
\* questions or collections member is not an array, or whose arrays hold an
\* element that is not a record.
C9_MalformedBundleRejected ==
    (ImportDone /\ Malformed(last.data)) => ~last.success

\* C10: after n saveQuizResult calls the stored history holds the min(n, 100)
\* latest results, newest first.
C10_HistoryAppendOrder ==
    nImports = 0
    => /\ Len(history) = Min(nextId, HistoryCap)
       /\ \A i \in DOMAIN history : history[i].id = GenId(nextId - i)

\* C11: getQuizStatistics counts and sums every stored run: totalQuizzes is the
\* length of the stored history, and totalQuestions, bestScore and totalTime are
\* those of all stored runs.
C11_StatisticsOverFullHistory ==
    last.op = "getQuizStatistics"
    => /\ last.stats.totalQuizzes = Len(history)
       /\ last.stats.totalQuestions = SumOver(history, "totalQuestions")
       /\ last.stats.bestScore = BestOver(history)
       /\ last.stats.totalTime = SumOver(history, "totalTime")

\* C12: cleanupOldEntries leaves exactly the stored runs whose timestamp is inside
\* the six-month window, in their order, and a second call changes nothing.
C12_CleanupRemovesExactlyStale ==
    last.op = "cleanupOldEntries"
    => /\ history = RecentOf(last.pre.history, now)
       /\ last.again => history = last.pre.history

SaveDone == last.op = "saveQuestion"

\* a record without the timestamps saveQuestion sets
Unsaved(q) == [q EXCEPT !.createdAt = None, !.updatedAt = None]

\* C13: saveQuestion without an id appends one record with a fresh id and createdAt;
\* with a stored id it replaces that record in place, sets updatedAt and leaves the
\* length and every other record as they were; with an id that is not stored it
\* appends the record with createdAt; it returns the id of the stored record.
C13_SaveQuestionThreeWay ==
    SaveDone
    => LET q == last.question
           pre == last.pre.questions
           k == FindIndex(pre, q.id)
           end == Len(pre) + 1
       IN  IF q.id # NoId /\ k # 0
           THEN /\ Len(questions) = Len(pre)
                /\ \A i \in DOMAIN pre : i # k => questions[i] = pre[i]
                /\ Unsaved(questions[k]) = Unsaved(q)
                /\ questions[k].updatedAt # None
                /\ last.id = q.id
           ELSE /\ Len(questions) = end
                /\ \A i \in DOMAIN pre : questions[i] = pre[i]
                /\ Unsaved(questions[end]) = Unsaved([q EXCEPT !.id = last.id])
                /\ questions[end].createdAt # None
                /\ last.id # NoId
                /\ q.id # NoId => last.id = q.id
                /\ q.id = NoId => last.id \notin IdsOf(pre)

\* C14: after id = saveQuestion(q) whose write localStorage accepted,
\* getQuestionById(id) returns the saved record: q with that id and the timestamp
\* of the save.
C14_SaveGetRoundTrip ==
    (SaveDone /\ last.written)
    => LET found == GetQuestionById(questions, last.id) IN
       /\ found # Undefined
       /\ Unsaved(found) = Unsaved([last.question EXCEPT !.id = last.id])

\* a save under an id that two stored records share
C14_Witness ==
    /\ SaveDone /\ last.written
    /\ \E i, j \in DOMAIN questions : i # j /\ questions[i].id = last.id
                                        /\ questions[j].id = last.id

\* C15: deleteQuestion(id) returns true exactly when a record with the id was
\* stored; after true getQuestionById(id) finds nothing; after false the stored
\* list is as before.
C15_DeleteQuestion ==
    last.op = "deleteQuestion"
    => /\ last.deleted <=> last.id \in IdsOf(last.pre.questions)
       /\ last.deleted => GetQuestionById(questions, last.id) = Undefined
       /\ ~last.deleted => questions = last.pre.questions

\* a delete of an id that two stored records share, another record staying
C15_Witness ==
    /\ last.op = "deleteQuestion"
    /\ last.deleted
    /\ Len(last.pre.questions) - Len(questions) >= 2

\* C16: after id = saveCollection(c), getCollectionById(id) finds the collection,
\* also when c came with an id that no stored collection has.
C16_SaveCollectionAppendsUnknownId ==
    last.op = "saveCollection"
    => LET found == GetCollectionById(collections, last.id) IN
       /\ found # Undefined
       /\ Unsaved(found) = Unsaved([last.collection EXCEPT !.id = last.id])

\* C17: when the write of saveQuestion fails for lack of space and the eviction
\* of old history and import-log entries frees enough space for the list, the
\* write is made again and the list ends up stored.
C17_QuotaWriteRetried ==
    (SaveDone /\ ~last.written
        /\ Size([Store EXCEPT !.questions = last.value]) <= StorageLimit)
    => questions = last.value

FetchDone == last.op = "fetch"

\* a request the worker is to handle: GET over http or https
Cacheable(request) ==
    request.method = "GET" /\ StartsWith(request.url.protocol, <<"http">>)

\* the strategy of the first rule that matches the pathname, in the order
\* always-network, static asset, dynamic prefix, default
RuleOf(pathname) ==
    IF \E pattern \in NETWORK_ONLY : StartsWith(pathname, pattern) THEN "fetch"
    ELSE IF \E file \in STATIC_FILES : pathname = file \/ EndsWith(pathname, file)
    THEN "cacheFirst"
    ELSE IF \E pattern \in DYNAMIC_FILES : StartsWith(pathname, pattern) THEN "networkFirst"
    ELSE "cacheFirstWithRefresh"

\* C18: for a fetch event whose request is not GET or not http(s), no listener
\* calls respondWith and no cache is read or written.
C18_OtherRequestsPassThrough ==
    (FetchDone /\ ~Cacheable(last.request))
    => /\ last.respondWith = 0
       /\ last.cacheReads = 0
       /\ last.cacheWrites = 0
       /\ ~last.changed

\* C19: for a GET http(s) fetch event respondWith is called exactly once, with
\* the strategy of the first matching rule.
C19_ExactlyOneStrategy ==
    (FetchDone /\ Cacheable(last.request))
    => /\ last.respondWith = 1
       /\ last.strategy = RuleOf(last.request.url.pathname)

\* a GET request that the second and the third rule both match
C19_Witness ==
    /\ FetchDone /\ Cacheable(last.request)
    /\ last.request.url.pathname = <<"/", "data", "/">>
    /\ last.strategy = "cacheFirst"

\* C20: a GET http(s) request of a static asset whose response is in a cache
\* when the event is dispatched is answered with the cached response and
\* without a network fetch, whatever other events are under way.
C20_CacheFirstHitNoNetwork ==
    (FetchDone /\ Cacheable(last.request)
        /\ RuleOf(last.request.url.pathname) = "cacheFirst"
        /\ last.prior # Undefined)
    => /\ last.networkCalls = 0
       /\ last.stored # Undefined
       /\ last.response = last.stored

\* a static asset served from the cache while another event is under way
C20_Witness ==
    /\ FetchDone /\ Cacheable(last.request)
    /\ RuleOf(last.request.url.pathname) = "cacheFirst"
    /\ last.prior # Undefined
    /\ last.response = last.prior
    /\ last.networkCalls = 0
    /\ Waiting("event", "fetch") # {}

\* C21: a GET request whose pathname starts with a dynamic prefix and with no
\* always-network prefix, with an entry cached for it when the event is
\* dispatched, is answered with the cached entry when the network fails; the
\* synthesized 503 is the answer only when the network fails and no entry was
\* cached.
C21_NetworkFirstFallsBack ==
    (FetchDone /\ Cacheable(last.request)
        /\ (\E pattern \in DYNAMIC_FILES : StartsWith(last.request.url.pathname, pattern))
        /\ ~(\E pattern \in NETWORK_ONLY : StartsWith(last.request.url.pathname, pattern)))
    => /\ (Rejects(last.net) /\ last.prior # Undefined)
            => (last.stored # Undefined /\ last.response = last.stored)
       /\ last.response.status = 503 => (Rejects(last.net) /\ last.prior = Undefined)

\* a network-first request answered from the cache while the network is down
C21_Witness ==
    /\ FetchDone /\ Cacheable(last.request)
    /\ last.strategy = "networkFirst"
    /\ Rejects(last.net)
    /\ last.prior # Undefined
    /\ last.response = last.prior

\* C22: cacheFirstWithRefresh answers with the cached copy when it finds one,
\* whatever the network does and while the refresh is under way, and after a
\* background refresh that fails or gets a response that is not ok nothing of
\* the refresh goes on: no cache is opened and nothing is put.
C22_StaleWhileRevalidate ==
    /\ (FetchDone /\ last.strategy = "cacheFirstWithRefresh" /\ last.cached # Undefined)
        => (last.response = last.cached /\ ~last.changed)
    /\ (last.op = "refresh" /\ (Rejects(last.net) \/ ~Ok(last.net))) => ~last.waits

\* a cached copy served while its background refresh waits for the network
C22_Witness ==
    /\ FetchDone /\ last.strategy = "cacheFirstWithRefresh"
    /\ last.cached # Undefined
    /\ last.response = last.cached
    /\ RefreshTask(last.request.url) \in Waiting("refresh", "fetch")

\* C23: after the activate handler no cache exists but the current static and
\* dynamic generations.
C23_ActivateEvictsOthers ==
    last.op = "activate"
    => \A i \in DOMAIN caches : caches[i].name \in {STATIC_CACHE_NAME, DYNAMIC_CACHE_NAME}

\* C30: cacheFirst, networkFirst and cacheFirstWithRefresh resolve to a response
\* (a cached one, the network's, or the 503 one) and never to undefined, for every
\* request, content of the caches and outcome of the network.
C30_StrategyResolvesToResponse ==
    last.op \in {"cacheFirst", "networkFirst", "cacheFirstWithRefresh"}
    => last.response # Undefined

\* C24: after a drain of a pending queue (the page's offline queue, or the
\* worker's pending entries of a sync tag), every entry that was queued and was
\* not delivered by a successful replay is still queued.
C24_ReplayAtLeastOnce ==
    last.op \in {"processOfflineQueue", "sync"}
    => \A i \in 1..Len(last.queue) :
           last.queue[i] \notin last.delivered
           => \E j \in 1..Len(last.remaining) : last.remaining[j] = last.queue[i]

\* the questions a parser call yielded, as a list
YieldedQuestions ==
    IF last.op = "parseTextFormat" THEN last.result
    ELSE IF last.result = Null THEN <<>> ELSE <<last.result>>

\* C25: a block of a question line, k option lines lettered A.. and an answer
\* line 'Answer: X' or 'Resposta: X' in any letter case yields one question with
\* the option lines in order and correct = i when X is the letter of option i
\* and k >= 2, and yields nothing when X is the letter of no option or k < 2.
C25_AnswerLetterResolved ==
    (last.op \in {"parseSingleQuestionFromText", "parseTextFormat"} /\ ~last.in.lowerCase)
    => IF last.in.k >= 2 /\ Position(last.in.letter) <= last.in.k
       THEN /\ Len(YieldedQuestions) = 1
            /\ YieldedQuestions[1].correct = Position(last.in.letter) - 1
            /\ YieldedQuestions[1].options = [i \in 1..last.in.k |-> OptionLine(i, FALSE)]
       ELSE YieldedQuestions = <<>>

\* the questions the validation is meant to accept; an option of blanks only
\* counts as empty
ValidQuestion(q) ==
    /\ Len(q.text) >= 10
    /\ \/ q.type = "open"
       \/ /\ Len(q.options) >= 2
          /\ Len(q.options) <= 10
          /\ \A i \in 1..Len(q.options) : Trim(q.options[i]) # <<>>
          /\ \A i, j \in 1..Len(q.options) :
                 i # j => LowerCased(q.options[i]) # LowerCased(q.options[j])
          /\ 0 <= q.correct
          /\ q.correct < Len(q.options)

\* C26: validateQuestion(q) returns true exactly when the text has at least 10
\* characters and the type is open or the options number 2 to 10, are non-empty
\* and pairwise distinct ignoring case, and 0 <= correct < number of options.
C26_ValidatesExactly ==
    last.op = "validateQuestion"
    => (last.result <=> ValidQuestion(last.questionData))

\* C28: every entry stored under 'quiz-history' has an id, no two entries have
\* the same id, the entries are in most-recent-first order and there are at most
\* 100 of them, whatever saveQuizResult, saveQuizResults, history imports and
\* cleanupOldEntries have done so far.
C28_HistoryWellFormed ==
    /\ \A i \in DOMAIN history : history[i].id # NoId
    /\ \A i, j \in DOMAIN history : i # j => history[i].id # history[j].id
    /\ \A i, j \in DOMAIN history : i < j => history[i].timestamp >= history[j].timestamp
    /\ Len(history) <= HistoryCap

\* C27: when a tab has written a question back, the question is stored and every
\* record stored before the write under another id is still stored, whatever
\* the other tabs read and wrote in between: a record is replaced only by a write
\* of its own id.
C27_LastWriterWinsPerId ==
    last.op \in {"saveQuestion", "createNewQuestion"}
    => /\ last.id \in IdsOf(questions)
       /\ \A i \in DOMAIN last.pre.questions :
              last.pre.questions[i].id # last.id
              => \E j \in DOMAIN questions : questions[j] = last.pre.questions[i]

\* C29: over a store that rejects every write, the frames of setItem and
\* handleStorageFull never fill the call stack, and a setItem call ends by
\* returning false, not by an error.
C29_SetItemTerminates ==
    /\ Len(stack) < StackLimit
    /\ last.op = "setItem" => ~last.threw

====
